---- MODULE Spec2Model ----
(***************************************************************************)
(* Model of grpc-scope's event broker (internal/event/broker.go): a        *)
(* registry of subscribers, each with a bounded Go channel, guarded by a   *)
(* sync.RWMutex.  Subscribe and the unsubscribe closures take the          *)
(* exclusive lock, Publish iterates the registry under the shared lock and *)
(* try-sends to every channel.                                             *)
(***************************************************************************)
EXTENDS Integers, Sequences, FiniteSets, TLC

\* ---------------------------------------------------------------- bounds
BufSize == 2          \* bufSize given to NewBroker (buffered channels: >= 1)
MaxSubs == 2          \* Subscribe calls made in a run
MaxEvents == 3        \* Publish calls made in a run
MaxUnsubCalls == 2    \* calls of unsubscribe closures made in a run

Handles == 1..MaxSubs            \* the n-th Subscribe call returns handle n
Events == 1..MaxEvents           \* the n-th Publish call publishes event n,
                                 \* each call in a goroutine of its own

VARIABLES
    subscribers,   \* b.subscribers: map id -> channel (index into chans)
    nextID,        \* b.nextID
    chans,         \* the channels made so far: [buf, closed]
    unsubId,       \* the id captured by the n-th unsubscribe closure
    subWaiting,    \* Subscribe calls blocked in b.mu.Lock()
    unsubWaiting,  \* per handle: unsubscribe calls blocked in b.mu.Lock()
    pub,           \* per Publish call: [pc, todo], pc new -> iter -> done
    nextEv,        \* number of the next event to be published
    panicked,      \* a goroutine panicked (close of / send on a closed channel)
    \* ---- history (what the callers observed)
    subCalls,      \* Subscribe calls made
    unsubCalls,    \* unsubscribe calls made
    unsubDone,     \* per handle: unsubscribe calls that returned
    snap,          \* per event: the ids registered while it was published
    before,        \* per event: the events whose Publish had returned at its call
    fullAt,        \* per event: the ids whose queue was full at the try-send
    received,      \* per handle: the events read from the channel
    atUnsub,       \* per handle: the queue when its unsubscribe first returned
    afterUnsub,    \* per handle: the events read after unsubscribe returned
    closedSeen,    \* per handle: a read yielded the closed signal
    subStart,      \* per waiting Subscribe call: the events whose Publish had
                   \* returned when the call started
    startedAfter,  \* per handle: the same, for the Subscribe call that made it
    \* ---- the Watch call that owns handle h (server.scopeService.Watch)
    wpc,           \* where it is: select -> send -> select ... -> defer -> unsub
    wev,           \* the event it took from its queue and is sending
    wlate,         \* that event was taken when the context was already cancelled
    cancelled,     \* its request context is cancelled (ctx.Done() is closed)
    wret,          \* what it returns: none, ctxErr, nil, sendErr
    sent,          \* the events stream.Send accepted, in order
    sentLate,      \* those of them taken from the queue after the cancellation
    sendFailed,    \* a stream.Send returned an error
    wUnsub,        \* how often it has called its unsubscribe
    \* ---- one replay.Client.Send call
    rpc,           \* where the call is: parse, open, send, recv, files, find,
                   \* unmarshal, metadata, invoke, marshal, done
    rMethod,       \* req.Method, a string as a sequence of characters
    rPayload,      \* req.PayloadJSON
    rCtx,          \* the caller's context: live or cancelled
    rSvc,          \* svc as ParseMethod returned it
    rMeth,         \* method as ParseMethod returned it
    rDesc,         \* the method descriptor found: [client, server] streaming flags
    rNet,          \* the network calls made so far: reflect, invoke
    rCancelHit,    \* a network call ended because of cancellation or the timeout
    rStatus,       \* the status the invocation ended with
    rResp,         \* the response message the invocation filled in
    rResult,       \* the *Result that Send returns
    rMeta,         \* req.Metadata, once Send has read it
    rMd,           \* md, the metadata of the outgoing context
    rReply,        \* the reflection response that stream.Recv returned
    rTodo,         \* the files of the response the loop has not visited yet
    rRegistry,     \* files: the file descriptors registered so far
    rRegLog,       \* the names given to files.RegisterFile, in call order
    rSymbol,       \* what FindDescriptorByName(svc) found
    rErr,          \* the error that Send returns
    fpc,           \* FilterMetadata: idle, call, done
    fmd,           \* FilterMetadata: the map it is called with, as it is now
    fout,          \* FilterMetadata: the map it returned
    sCode,         \* the StatusCode of a CallEvent e
    sCalled,       \* which of e.StatusCode.String() and e.IsError() have run
    sString,       \* what e.StatusCode.String() returned
    sIsError,      \* what e.IsError() returned
    scKind,        \* the Scope's interceptors: grpc or connect
    scNextID,      \* s.nextID of the Scope
    scCalls,       \* the intercepted calls: position, how the handler ended,
                   \* the value generateID loaded, the ID it returned
    scIssued,      \* the IDs generateID returned, in the order of its returns
    scPublished,   \* the events given to s.broker.Publish, in call order
    scWatched,     \* the scopev1.CallEvent messages a watcher received
    tm,            \* the monitor's Model, as the last Update returned it
    tCmds,         \* the commands Update returned that have not finished
    tStream,       \* the Watch stream of the monitor: connecting, open, broken
    tNextEv,       \* the number of the next event the stream delivers
    tQuit,         \* Update returned tea.Quit
    tPanicked,     \* Update panicked (index out of range)
    tMsg,          \* the message the last Update was called with
    serverState    \* the Scope's internal gRPC server: serving, stopping
                   \* (GracefulStop is waiting), stopped

brokerVars == <<subscribers, nextID, chans, unsubId, subWaiting, unsubWaiting>>
pubVars == <<pub, nextEv>>
histVars == <<subCalls, unsubCalls, unsubDone, snap, before, fullAt,
              received, atUnsub, afterUnsub, closedSeen, subStart,
              startedAfter>>
watchVars == <<wpc, wev, wlate, cancelled, wret, sent, sentLate, sendFailed,
               wUnsub>>
replayVars == <<rpc, rMethod, rPayload, rCtx, rSvc, rMeth, rDesc, rNet,
                rCancelHit, rStatus, rResp, rResult, rErr, rMeta, rMd, rReply,
                rTodo, rRegistry, rRegLog, rSymbol>>
\* the calls of pure functions that are checked on their own
filterVars == <<fpc, fmd, fout>>
statusVars == <<sCode, sCalled, sString, sIsError>>
scopeVars == <<scKind, scNextID, scCalls, scIssued, scPublished, scWatched>>
tuiVars == <<tm, tCmds, tStream, tNextEv, tQuit, tPanicked, tMsg>>
closeVars == <<serverState>>
nonTuiVars == <<brokerVars, pubVars, panicked, histVars, watchVars,
                replayVars, filterVars, statusVars, scopeVars, closeVars>>
unitVars == <<filterVars, statusVars, scopeVars, tuiVars, closeVars>>
vars == <<brokerVars, pubVars, panicked, histVars, watchVars, replayVars,
          unitVars>>

\* ------------------------------------------------------------ Go channels
\* make(chan domain.CallEvent, b.bufSize)
MakeChan == [buf |-> <<>>, closed |-> FALSE]

\* TrySend with the full case evicting the oldest queued event
TrySendEvictOldest(c, e) ==
    IF Len(c.buf) < BufSize
    THEN [c EXCEPT !.buf = Append(@, e)]
    ELSE [c EXCEPT !.buf = Append(Tail(@), e)]

\* TrySend putting the event at the head of the queue
TrySendAtHead(c, e) ==
    IF Len(c.buf) < BufSize THEN [c EXCEPT !.buf = <<e>> \o @] ELSE c

\* TrySend with the capacity test off by one
TrySendOffByOne(c, e) ==
    IF Len(c.buf) < BufSize - 1 THEN [c EXCEPT !.buf = Append(@, e)] ELSE c

\* select { case ch <- event: default: } on an open channel
TrySend(c, e) ==
    IF Len(c.buf) < BufSize THEN [c EXCEPT !.buf = Append(@, e)] ELSE c

\* ------------------------------------------------------------- sync.RWMutex
\* the goroutines that hold b.mu.RLock()
Readers == {e \in Events : pub[e].pc = "iter"}

\* the events whose Publish has returned
Returned == {e \in Events : pub[e].pc = "done"}

\* a goroutine is blocked in b.mu.Lock(): new RLock calls wait behind it
WriterWaiting == subWaiting > 0 \/ \E h \in Handles : unsubWaiting[h] > 0

\* b.mu.Lock() can be taken: no reader holds the lock (the writer's critical
\* section is one step, so no other writer holds it either)
CanLock == Readers = {}

\* b.mu.RLock() can be taken
CanRLock == ~WriterWaiting

\* ------------------------------------------------------------------- Init
\* no Watch has been called
WatchInit ==
    /\ wpc = [h \in Handles |-> "select"]
    /\ wev = [h \in Handles |-> 0]
    /\ wlate = [h \in Handles |-> FALSE]
    /\ cancelled = [h \in Handles |-> FALSE]
    /\ wret = [h \in Handles |-> "none"]
    /\ sent = [h \in Handles |-> <<>>]
    /\ sentLate = [h \in Handles |-> <<>>]
    /\ sendFailed = [h \in Handles |-> FALSE]
    /\ wUnsub = [h \in Handles |-> 0]

\* NewBroker(bufSize)
BrokerInit ==
    /\ subscribers = << >>
    /\ nextID = 0
    /\ chans = <<>>
    /\ unsubId = <<>>
    /\ subWaiting = 0
    /\ unsubWaiting = [h \in Handles |-> 0]
    /\ pub = [e \in Events |-> [pc |-> "new", todo |-> {}]]
    /\ nextEv = 1
    /\ panicked = FALSE
    /\ subCalls = 0
    /\ unsubCalls = 0
    /\ unsubDone = [h \in Handles |-> 0]
    /\ snap = [e \in Events |-> {}]
    /\ before = [e \in Events |-> {}]
    /\ fullAt = [e \in Events |-> {}]
    /\ received = [h \in Handles |-> <<>>]
    /\ atUnsub = [h \in Handles |-> <<>>]
    /\ afterUnsub = [h \in Handles |-> <<>>]
    /\ closedSeen = [h \in Handles |-> FALSE]
    /\ subStart = <<>>
    /\ startedAfter = [h \in Handles |-> {}]

\* a nil *Result
NoResult == [nil |-> TRUE]

\* no method descriptor
NoDesc == [nil |-> TRUE]

\* no reflection response
NoReply == [kind |-> "none", files |-> <<>>]

\* a nil map[string][]string or metadata.MD
NilMD == [isNil |-> TRUE, kv |-> <<>>]

\* no Send has been called
ReplayIdle ==
    /\ rpc = "idle"
    /\ rMethod = <<>>
    /\ rPayload = ""
    /\ rCtx = "live"
    /\ rSvc = <<>>
    /\ rMeth = <<>>
    /\ rDesc = NoDesc
    /\ rNet = {}
    /\ rCancelHit = FALSE
    /\ rStatus = "none"
    /\ rResp = "none"
    /\ rResult = NoResult
    /\ rErr = "none"
    /\ rMeta = NilMD
    /\ rMd = NilMD
    /\ rReply = NoReply
    /\ rTodo = <<>>
    /\ rRegistry = {}
    /\ rRegLog = <<>>
    /\ rSymbol = "none"

\* no call of FilterMetadata is under way
FilterIdle ==
    /\ fpc = "idle"
    /\ fmd = NilMD
    /\ fout = NilMD

\* a zero CallEvent, and no call of String or IsError
StatusIdle ==
    /\ sCode = 0
    /\ sCalled = {}
    /\ sString = ""
    /\ sIsError = FALSE

\* a Scope whose interceptors have not been called
ScopeIdle ==
    /\ scKind = "grpc"
    /\ scNextID = 0
    /\ scCalls = <<>>
    /\ scIssued = <<>>
    /\ scPublished = <<>>
    /\ scWatched = <<>>

\* no replay result view
NoView == [nil |-> TRUE]

\* NewModel(target, appTarget)
NewModel(appTarget) ==
    [appTarget |-> appTarget, events |-> <<>>, cursor |-> 0, width |-> 0,
     height |-> 0, err |-> FALSE, conn |-> FALSE, mode |-> "viewList",
     replayResult |-> NoView, replaying |-> FALSE]

\* no monitor is running
TuiIdle ==
    /\ tm = NewModel("")
    /\ tCmds = <<>>
    /\ tStream = "none"
    /\ tNextEv = 1
    /\ tQuit = FALSE
    /\ tPanicked = FALSE
    /\ tMsg = "none"

\* scope.New has started the internal server; Close has not been called
CloseIdle == serverState = "serving"

UnitIdle == FilterIdle /\ StatusIdle /\ ScopeIdle /\ TuiIdle /\ CloseIdle

Init == BrokerInit /\ WatchInit /\ ReplayIdle /\ UnitIdle

\* the sequence s without its i-th element
Without(s, i) == SubSeq(s, 1, i - 1) \o SubSeq(s, i + 1, Len(s))

\* -------------------------------------------------------------- Subscribe
\* a goroutine calls Subscribe and blocks in b.mu.Lock()
SubscribeCall ==
    /\ ~panicked
    /\ UNCHANGED <<watchVars, replayVars, unitVars>>
    /\ subCalls < MaxSubs
    /\ subCalls' = subCalls + 1
    /\ subWaiting' = subWaiting + 1
    /\ subStart' = Append(subStart, Returned)
    /\ UNCHANGED <<subscribers, nextID, chans, unsubId, unsubWaiting, pubVars,
                   panicked, unsubCalls, unsubDone, snap, before, fullAt,
                   received, atUnsub, afterUnsub, closedSeen, startedAfter>>

\* Subscribe without b.nextID++
SubscribeReuseId ==
    /\ ~panicked
    /\ UNCHANGED <<watchVars, replayVars, unitVars>>
    /\ subWaiting > 0
    /\ CanLock
    /\ subWaiting' = subWaiting - 1
    /\ nextID' = nextID
    /\ chans' = Append(chans, MakeChan)
    /\ subscribers' = (nextID :> (Len(chans) + 1)) @@ subscribers
    /\ unsubId' = Append(unsubId, nextID)
    /\ \E i \in 1..Len(subStart) :
          /\ subStart' = Without(subStart, i)
          /\ startedAfter' = [startedAfter EXCEPT ![Len(chans) + 1] = subStart[i]]
    /\ UNCHANGED <<unsubWaiting, pubVars, panicked, subCalls, unsubCalls,
                   unsubDone, snap, before, fullAt, received, atUnsub,
                   afterUnsub, closedSeen>>

\* Subscribe of a broker that keeps the last event and queues it for a
\* new subscriber
SubscribeReplaysLast ==
    /\ ~panicked
    /\ UNCHANGED <<watchVars, replayVars, unitVars>>
    /\ subWaiting > 0
    /\ CanLock
    /\ subWaiting' = subWaiting - 1
    /\ nextID' = nextID + 1
    /\ chans' = Append(chans, [buf |-> IF nextEv > 1 THEN <<nextEv - 1>> ELSE <<>>,
                               closed |-> FALSE])
    /\ subscribers' = (nextID :> (Len(chans) + 1)) @@ subscribers
    /\ unsubId' = Append(unsubId, nextID)
    /\ \E i \in 1..Len(subStart) :
          /\ subStart' = Without(subStart, i)
          /\ startedAfter' = [startedAfter EXCEPT ![Len(chans) + 1] = subStart[i]]
    /\ UNCHANGED <<unsubWaiting, pubVars, panicked, subCalls, unsubCalls,
                   unsubDone, snap, before, fullAt, received, atUnsub,
                   afterUnsub, closedSeen>>

\* Subscribe of a broker that gives a new subscriber the least id that is
\* not registered
SubscribeLeastFreeId ==
    /\ ~panicked
    /\ UNCHANGED <<watchVars, replayVars, unitVars>>
    /\ subWaiting > 0
    /\ CanLock
    /\ subWaiting' = subWaiting - 1
    /\ nextID' = nextID + 1
    /\ chans' = Append(chans, MakeChan)
    /\ LET id == CHOOSE i \in 0..MaxSubs :
                    /\ i \notin DOMAIN subscribers
                    /\ \A j \in 0..(i - 1) : j \in DOMAIN subscribers
       IN /\ subscribers' = (id :> (Len(chans) + 1)) @@ subscribers
          /\ unsubId' = Append(unsubId, id)
    /\ \E i \in 1..Len(subStart) :
          /\ subStart' = Without(subStart, i)
          /\ startedAfter' = [startedAfter EXCEPT ![Len(chans) + 1] = subStart[i]]
    /\ UNCHANGED <<unsubWaiting, pubVars, panicked, subCalls, unsubCalls,
                   unsubDone, snap, before, fullAt, received, atUnsub,
                   afterUnsub, closedSeen>>

\* the body of Subscribe, under the exclusive lock
Subscribe ==
    /\ ~panicked
    /\ UNCHANGED <<watchVars, replayVars, unitVars>>
    /\ subWaiting > 0
    /\ CanLock
    /\ subWaiting' = subWaiting - 1
    /\ nextID' = nextID + 1
    /\ chans' = Append(chans, MakeChan)
    /\ subscribers' = (nextID :> (Len(chans) + 1)) @@ subscribers
    /\ unsubId' = Append(unsubId, nextID)
    /\ \E i \in 1..Len(subStart) :
          /\ subStart' = Without(subStart, i)
          /\ startedAfter' = [startedAfter EXCEPT ![Len(chans) + 1] = subStart[i]]
    /\ UNCHANGED <<unsubWaiting, pubVars, panicked, subCalls, unsubCalls,
                   unsubDone, snap, before, fullAt, received, atUnsub,
                   afterUnsub, closedSeen>>

\* ------------------------------------------------------------ unsubscribe
\* a goroutine calls the h-th unsubscribe closure and blocks in b.mu.Lock()
UnsubscribeCall(h) ==
    /\ ~panicked
    /\ UNCHANGED <<watchVars, replayVars, unitVars>>
    /\ h <= Len(chans)
    /\ unsubCalls < MaxUnsubCalls
    /\ unsubCalls' = unsubCalls + 1
    /\ unsubWaiting' = [unsubWaiting EXCEPT ![h] = @ + 1]
    /\ UNCHANGED <<subscribers, nextID, chans, unsubId, subWaiting, pubVars,
                   panicked, subCalls, unsubDone, snap, before, fullAt,
                   received, atUnsub, afterUnsub, closedSeen, subStart,
                   startedAfter>>

\* close(ch) that also discards what is queued
CloseDiscard(h) ==
    IF chans[h].closed
    THEN /\ panicked' = TRUE
         /\ chans' = chans
    ELSE /\ panicked' = panicked
         /\ chans' = [chans EXCEPT ![h] = [buf |-> <<>>, closed |-> TRUE]]

\* close(ch): closing a closed channel panics
Close(h) ==
    IF chans[h].closed
    THEN /\ panicked' = TRUE
         /\ chans' = chans
    ELSE /\ panicked' = panicked
         /\ chans' = [chans EXCEPT ![h].closed = TRUE]

\* the map without the entry id (delete on a missing key does nothing)
Delete(m, id) == [i \in DOMAIN m \ {id} |-> m[i]]

\* the unsubscribe body without the "if _, ok" test
UnsubscribeBodyNoCheck(h) ==
    /\ subscribers' = Delete(subscribers, unsubId[h])
    /\ Close(h)

\* the unsubscribe body without close(ch)
UnsubscribeBodyNoClose(h) ==
    /\ subscribers' = Delete(subscribers, unsubId[h])
    /\ chans' = chans
    /\ panicked' = panicked

\* the unsubscribe body without delete(b.subscribers, id)
UnsubscribeBodyNoDelete(h) ==
    IF unsubId[h] \in DOMAIN subscribers
    THEN /\ subscribers' = subscribers
         /\ Close(h)
    ELSE /\ subscribers' = subscribers
         /\ chans' = chans
         /\ panicked' = panicked

\* the body of the unsubscribe closure, under the exclusive lock
UnsubscribeBody(h) ==
    IF unsubId[h] \in DOMAIN subscribers
    THEN /\ subscribers' = Delete(subscribers, unsubId[h])
         /\ Close(h)
    ELSE /\ subscribers' = subscribers
         /\ chans' = chans
         /\ panicked' = panicked

Unsubscribe(h) ==
    /\ ~panicked
    /\ UNCHANGED <<watchVars, replayVars, unitVars>>
    /\ h <= Len(chans)
    /\ unsubWaiting[h] > 0
    /\ CanLock
    /\ unsubWaiting' = [unsubWaiting EXCEPT ![h] = @ - 1]
    /\ UnsubscribeBody(h)
    /\ unsubDone' = [unsubDone EXCEPT ![h] = @ + 1]
    /\ atUnsub' = IF unsubDone[h] = 0
                  THEN [atUnsub EXCEPT ![h] = chans[h].buf]
                  ELSE atUnsub
    /\ UNCHANGED <<nextID, unsubId, subWaiting, pubVars, subCalls, unsubCalls,
                   snap, before, fullAt, received, afterUnsub, closedSeen,
                   subStart, startedAfter>>

\* ---------------------------------------------------------------- Publish
\* Publish(event) takes the shared lock and starts ranging over the map
PublishCall(e) ==
    /\ ~panicked
    /\ UNCHANGED <<watchVars, replayVars, unitVars>>
    /\ e = nextEv
    /\ CanRLock
    /\ pub' = [pub EXCEPT ![e] = [pc |-> "iter", todo |-> DOMAIN subscribers]]
    /\ nextEv' = nextEv + 1
    /\ snap' = [snap EXCEPT ![e] = DOMAIN subscribers]
    /\ before' = [before EXCEPT ![e] = Returned]
    /\ UNCHANGED <<brokerVars, panicked, subCalls, unsubCalls, unsubDone,
                   fullAt, received, atUnsub, afterUnsub, closedSeen,
                   subStart, startedAfter>>

\* a range loop left after its first iteration
RestBreak(todo, id) == {}

\* a range loop left when the queue of entry id is full
RestStopOnFull(todo, id) ==
    IF Len(chans[subscribers[id]].buf) >= BufSize THEN {} ELSE todo \ {id}

\* the entries of the map still to visit after the entry id was visited
Rest(todo, id) == todo \ {id}

\* the loop body with a plain send, ch <- event, which waits for room
PublishSendBlocking(e, id) ==
    /\ ~panicked
    /\ UNCHANGED <<watchVars, replayVars, unitVars>>
    /\ pub[e].pc = "iter"
    /\ id \in pub[e].todo
    /\ Len(chans[subscribers[id]].buf) < BufSize
    /\ LET h == subscribers[id]
       IN  IF chans[h].closed
           THEN /\ panicked' = TRUE
                /\ UNCHANGED <<chans, fullAt>>
           ELSE /\ panicked' = panicked
                /\ chans' = [chans EXCEPT ![h] = TrySend(chans[h], e)]
                /\ UNCHANGED fullAt
    /\ pub' = [pub EXCEPT ![e].todo = Rest(pub[e].todo, id)]
    /\ UNCHANGED <<subscribers, nextID, unsubId, subWaiting, unsubWaiting,
                   nextEv, subCalls, unsubCalls, unsubDone, snap, before,
                   received, atUnsub, afterUnsub, closedSeen, subStart,
                   startedAfter>>

\* one iteration of the range loop: the try-send to the channel of entry id
\* (a send on a closed channel panics, also inside a select with default)
PublishSend(e, id) ==
    /\ ~panicked
    /\ UNCHANGED <<watchVars, replayVars, unitVars>>
    /\ pub[e].pc = "iter"
    /\ id \in pub[e].todo
    /\ LET h == subscribers[id]
       IN  IF chans[h].closed
           THEN /\ panicked' = TRUE
                /\ UNCHANGED <<chans, fullAt>>
           ELSE /\ panicked' = panicked
                /\ chans' = [chans EXCEPT ![h] = TrySend(chans[h], e)]
                /\ fullAt' = IF Len(chans[h].buf) >= BufSize
                             THEN [fullAt EXCEPT ![e] = @ \cup {id}]
                             ELSE fullAt
    /\ pub' = [pub EXCEPT ![e].todo = Rest(pub[e].todo, id)]
    /\ UNCHANGED <<subscribers, nextID, unsubId, subWaiting, unsubWaiting,
                   nextEv, subCalls, unsubCalls, unsubDone, snap, before,
                   received, atUnsub, afterUnsub, closedSeen, subStart,
                   startedAfter>>

\* the range loop visits the entries of the map in any order
PublishLoop(e) == \E id \in pub[e].todo : PublishSend(e, id)

\* the range loop is over: the deferred RUnlock runs and Publish returns
PublishReturn(e) ==
    /\ ~panicked
    /\ UNCHANGED <<watchVars, replayVars, unitVars>>
    /\ pub[e].pc = "iter"
    /\ pub[e].todo = {}
    /\ pub' = [pub EXCEPT ![e].pc = "done"]
    /\ UNCHANGED <<brokerVars, nextEv, panicked, histVars>>

\* ---------------------------------------------------------------- receive
\* ev, ok := <-ch by the owner of handle h: a queued event if there is one
\* (also when the channel is closed), the closed signal when the channel is
\* closed and drained; it blocks on an open, empty channel
Receive(h) ==
    /\ ~panicked
    /\ UNCHANGED <<watchVars, replayVars, unitVars>>
    /\ h <= Len(chans)
    /\ IF chans[h].buf # <<>>
       THEN /\ chans' = [chans EXCEPT ![h].buf = Tail(@)]
            /\ received' = [received EXCEPT ![h] = Append(@, Head(chans[h].buf))]
            /\ afterUnsub' = IF unsubDone[h] > 0
                             THEN [afterUnsub EXCEPT ![h] = Append(@, Head(chans[h].buf))]
                             ELSE afterUnsub
            /\ UNCHANGED closedSeen
       ELSE /\ chans[h].closed
            /\ closedSeen' = [closedSeen EXCEPT ![h] = TRUE]
            /\ UNCHANGED <<chans, received, afterUnsub>>
    /\ UNCHANGED <<subscribers, nextID, unsubId, subWaiting, unsubWaiting,
                   pubVars, panicked, subCalls, unsubCalls, unsubDone, snap,
                   before, fullAt, atUnsub, subStart, startedAfter>>

\* -------------------------------------------------------- SubscriberCount
\* len(b.subscribers), read under the shared lock
SubscriberCount == Cardinality(DOMAIN subscribers)

\* ------------------------------------------------------------------- Next
\* a panic ends the process: every action is guarded by ~panicked
Next ==
    \/ SubscribeCall
    \/ Subscribe
    \/ \E h \in Handles : UnsubscribeCall(h)
    \/ \E h \in Handles : Unsubscribe(h)
    \/ \E e \in Events : PublishCall(e)
    \/ \E e \in Events : PublishLoop(e)
    \/ \E e \in Events : PublishReturn(e)
    \/ \E h \in Handles : Receive(h)

Spec == Init /\ [][Next]_vars

\* ================================================================ claims
\* the handles returned so far
Made == 1..Len(chans)

\* everything that was ever put in the queue of handle h, in queue order
Delivered(h) == received[h] \o chans[h].buf

\* how often e occurs in the sequence s
Count(e, s) == Cardinality({i \in 1..Len(s) : s[i] = e})

\* s is what is left of t after some reads
IsSuffix(s, t) ==
    /\ Len(s) <= Len(t)
    /\ \A i \in 1..Len(s) : s[i] = t[Len(t) - Len(s) + i]

\* the events published while the subscriber of handle h was registered
PublishedTo(h) == {e \in Events : pub[e].pc # "new" /\ unsubId[h] \in snap[e]}

\* C1: a Publish(e) that found no queue full has, when it returns, put e
\* exactly once in the queue of each of the N subscribers registered during
\* it, and in no other queue.
C1_PublishDeliversToAll ==
    \A e \in Returned :
        fullAt[e] = {} =>
            \A h \in Made :
                Count(e, Delivered(h)) = IF unsubId[h] \in snap[e] THEN 1 ELSE 0

C1_Witness ==
    \E e \in Returned :
        /\ fullAt[e] = {}
        /\ Cardinality(snap[e]) = 2
        /\ \A h \in Made : unsubId[h] \in snap[e] => Count(e, Delivered(h)) = 1

\* C2: the try-send of a Publish to a queue that holds bufSize events leaves
\* that queue as it is (the new event is dropped, the queued ones stay, in
\* order), the Publish goes on without waiting, and no queue ever holds more
\* than bufSize events.
C2_FullQueueDropsNew ==
    [][\A h \in Made :
          /\ Len(chans'[h].buf) <= BufSize
          /\ \A e \in Events :
                (PublishSend(e, unsubId[h]) /\ Len(chans[h].buf) >= BufSize)
                    => /\ chans'[h] = chans[h]
                       /\ pub'[e].todo = pub[e].todo \ {unsubId[h]}
                       /\ ~panicked']_vars

C2_Witness ==
    \E e \in Returned : \E h \in Made :
        /\ unsubId[h] \in fullAt[e]
        /\ Count(e, Delivered(h)) = 0
        /\ Len(Delivered(h)) = BufSize

\* C3: when a Publish(e) that found some queue full returns, every other
\* subscriber registered during it, whose queue had room, has received e.
C3_FullQueueDoesNotAffectOthers ==
    \A e \in Returned :
        fullAt[e] # {} =>
            \A h \in Made :
                unsubId[h] \in snap[e] \ fullAt[e] => Count(e, Delivered(h)) = 1

C3_Witness ==
    \E e \in Returned : \E h \in Made :
        /\ fullAt[e] # {}
        /\ unsubId[h] \in snap[e] \ fullAt[e]
        /\ Count(e, Delivered(h)) = 1

\* C4: a call of an unsubscribe closure that is not its first changes neither
\* the registry nor any channel and does not panic (no second close).
C4_UnsubscribeIdempotent ==
    [][\A h \in Made :
          (Unsubscribe(h) /\ unsubDone[h] >= 1)
              => /\ subscribers' = subscribers
                 /\ chans' = chans
                 /\ ~panicked']_vars

C4_Witness ==
    \E h \in Made : unsubDone[h] >= 2 /\ ~panicked /\ Len(chans) = 2

\* C5: once unsubscribe has returned, the queue of that subscriber is closed
\* and stays closed, and no step adds an event to it (it only shrinks by
\* reads).
C5_ClosedForever ==
    [][\A h \in Made :
          unsubDone[h] >= 1
              => /\ chans'[h].closed
                 /\ IsSuffix(chans'[h].buf, chans[h].buf)]_vars

C5_Witness ==
    \E h \in Made : \E e1, e2 \in Returned :
        /\ unsubDone[h] >= 1
        /\ e1 < e2
        /\ unsubId[h] \in snap[e1]
        /\ unsubId[h] \notin snap[e2]
        /\ Len(chans) = 1

\* C6 as claimed: no read after unsubscribe has returned yields an event.
C6_NoEventAfterUnsubscribe ==
    \A h \in Made : afterUnsub[h] = <<>>

\* C6 as amended: after unsubscribe has returned the queue is closed; the
\* reads yield the events that were queued when unsubscribe ran, in order and
\* each once, and the closed signal only when none of them is left.
C6_ClosedAfterDrain ==
    \A h \in Made :
        /\ unsubDone[h] >= 1 =>
              /\ chans[h].closed
              /\ afterUnsub[h] \o chans[h].buf = atUnsub[h]
        /\ closedSeen[h] =>
              /\ unsubDone[h] >= 1
              /\ chans[h].buf = <<>>

C6_Witness ==
    \E h \in Made :
        /\ unsubDone[h] >= 1
        /\ Len(afterUnsub[h]) = 2
        /\ closedSeen[h]

\* C7: no goroutine panics, and every queue in the registry is open.
C7_RegistryHoldsOpenQueues ==
    /\ ~panicked
    /\ \A id \in DOMAIN subscribers :
          /\ subscribers[id] \in Made
          /\ ~chans[subscribers[id]].closed

C7_Witness ==
    \E h1, h2 \in Made : \E e \in Events :
        /\ chans[h1].closed
        /\ pub[e].pc = "iter"
        /\ unsubId[h2] \in pub[e].todo
        /\ unsubWaiting[h2] > 0

\* C8: what a subscriber is given is, in queue order, without repetition,
\* made of events published while it was registered, and if Publish(e1)
\* returned before Publish(e2) was called then e2 never comes before e1.
C8_OrderPreserved ==
    \A h \in Made :
        LET d == Delivered(h)
        IN  /\ \A i \in 1..Len(d) : d[i] \in PublishedTo(h)
            /\ \A i, j \in 1..Len(d) :
                  i < j => d[i] # d[j] /\ d[j] \notin before[d[i]]

C8_Witness ==
    \E h \in Made :
        /\ Len(received[h]) >= 2
        /\ received[h][1] \in before[received[h][2]]

\* C9: when at most bufSize events were published to a subscriber (its queue
\* always had a free slot for each of them) and all these Publish calls have
\* returned, the subscriber was given exactly these events, each once,
\* however the calls interleaved.
C9_ConcurrentPublishLosesNothing ==
    \A h \in Made :
        (Cardinality(PublishedTo(h)) <= BufSize /\ PublishedTo(h) \subseteq Returned)
            => /\ \A e \in PublishedTo(h) : Count(e, Delivered(h)) = 1
               /\ Len(Delivered(h)) = Cardinality(PublishedTo(h))

C9_Witness ==
    \E h \in Made : \E e1, e2 \in Returned :
        /\ PublishedTo(h) = {e1, e2}
        /\ e1 < e2
        /\ e1 \notin before[e2]
        /\ chans[h].buf = <<e2, e1>>

\* C10: SubscriberCount() is the number of subscribers that were registered
\* and whose unsubscribe has not run; running it again, or a Publish, does
\* not change the count.
C10_SubscriberCount ==
    SubscriberCount = Cardinality({h \in Made : unsubDone[h] = 0})

C10_Witness ==
    /\ SubscriberCount = 1
    /\ Len(chans) = 2
    /\ \E h \in Made : unsubDone[h] = 2
    /\ \E e \in Returned : TRUE

\* C11: no call waits for a subscriber to read.  A Publish that has begun can
\* always take its next step (a try-send or its return; it has at most one
\* try-send per registered subscriber to make), whatever the queues hold,
\* and a Subscribe or unsubscribe blocked on the lock can take it as soon as
\* no Publish holds it: no state is a deadlock of the broker's calls.
C11_NoCallBlocks ==
    ~panicked =>
        /\ \A e \in Events :
              pub[e].pc = "iter" => ENABLED (PublishLoop(e) \/ PublishReturn(e))
        /\ (subWaiting > 0 /\ Readers = {}) => ENABLED Subscribe
        /\ \A h \in Handles :
              (unsubWaiting[h] > 0 /\ Readers = {}) => ENABLED Unsubscribe(h)

\* a Publish returned although a queue it met was full and was never read
C11_Witness ==
    \E e \in Returned : \E h \in Made :
        /\ unsubId[h] \in fullAt[e]
        /\ received[h] = <<>>
        /\ ~panicked

\* ================================================================== Watch
\* scopeService.Watch: the call subscribes (SubscribeCall, Subscribe), gets
\* handle h, and loops on a select over ctx.Done() and its queue; the
\* unsubscribe is deferred, so it runs on every return.

\* the Watch call that owns handle h has returned, deferred call included
WatchReturned(h) == wpc[h] = "unsub" /\ unsubWaiting[h] = 0

\* the client goes away or the deadline passes: ctx.Done() is closed
Cancel(h) ==
    /\ ~panicked
    /\ h <= subCalls
    /\ ~cancelled[h]
    /\ cancelled' = [cancelled EXCEPT ![h] = TRUE]
    /\ UNCHANGED <<brokerVars, pubVars, panicked, histVars, replayVars, unitVars,
                   wpc,
                   wev, wlate, wret, sent, sentLate, sendFailed, wUnsub>>

\* case <-ctx.Done(): return nil instead of ctx.Err()
WatchCtxDoneReturnsNil(h) ==
    /\ ~panicked
    /\ h <= Len(chans)
    /\ wpc[h] = "select"
    /\ cancelled[h]
    /\ wret' = [wret EXCEPT ![h] = "nil"]
    /\ wpc' = [wpc EXCEPT ![h] = "defer"]
    /\ UNCHANGED <<brokerVars, pubVars, panicked, histVars, replayVars, unitVars,
                   wev,
                   wlate, cancelled, sent, sentLate, sendFailed, wUnsub>>

\* case <-ctx.Done(): return ctx.Err()
WatchCtxDone(h) ==
    /\ ~panicked
    /\ h <= Len(chans)
    /\ wpc[h] = "select"
    /\ cancelled[h]
    /\ wret' = [wret EXCEPT ![h] = "ctxErr"]
    /\ wpc' = [wpc EXCEPT ![h] = "defer"]
    /\ UNCHANGED <<brokerVars, pubVars, panicked, histVars, replayVars, unitVars,
                   wev,
                   wlate, cancelled, sent, sentLate, sendFailed, wUnsub>>

\* a receive that waits until the queue is full before it takes an event
WatchRecvWhenFull(h) ==
    /\ ~panicked
    /\ h <= Len(chans)
    /\ wpc[h] = "select"
    /\ IF Len(chans[h].buf) = BufSize
       THEN /\ chans' = [chans EXCEPT ![h].buf = Tail(@)]
            /\ received' = [received EXCEPT ![h] = Append(@, Head(chans[h].buf))]
            /\ wev' = [wev EXCEPT ![h] = Head(chans[h].buf)]
            /\ wlate' = [wlate EXCEPT ![h] = cancelled[h]]
            /\ wpc' = [wpc EXCEPT ![h] = "send"]
            /\ UNCHANGED <<closedSeen, wret>>
       ELSE /\ chans[h].closed
            /\ closedSeen' = [closedSeen EXCEPT ![h] = TRUE]
            /\ wret' = [wret EXCEPT ![h] = "nil"]
            /\ wpc' = [wpc EXCEPT ![h] = "defer"]
            /\ UNCHANGED <<chans, received, wev, wlate>>
    /\ UNCHANGED <<subscribers, nextID, unsubId, subWaiting, unsubWaiting,
                   pubVars, panicked, subCalls, unsubCalls, unsubDone, snap,
                   before, fullAt, atUnsub, afterUnsub, replayVars, unitVars,
                   cancelled, sent, sentLate, sendFailed, wUnsub, subStart,
                   startedAfter>>

\* case ev, ok := <-ch: ready when the queue holds an event or is closed;
\* select chooses among its ready cases at random, so this case may be
\* taken while ctx.Done() is ready too.  if !ok { return nil }
WatchRecv(h) ==
    /\ ~panicked
    /\ h <= Len(chans)
    /\ wpc[h] = "select"
    /\ IF chans[h].buf # <<>>
       THEN /\ chans' = [chans EXCEPT ![h].buf = Tail(@)]
            /\ received' = [received EXCEPT ![h] = Append(@, Head(chans[h].buf))]
            /\ wev' = [wev EXCEPT ![h] = Head(chans[h].buf)]
            /\ wlate' = [wlate EXCEPT ![h] = cancelled[h]]
            /\ wpc' = [wpc EXCEPT ![h] = "send"]
            /\ UNCHANGED <<closedSeen, wret>>
       ELSE /\ chans[h].closed
            /\ closedSeen' = [closedSeen EXCEPT ![h] = TRUE]
            /\ wret' = [wret EXCEPT ![h] = "nil"]
            /\ wpc' = [wpc EXCEPT ![h] = "defer"]
            /\ UNCHANGED <<chans, received, wev, wlate>>
    /\ UNCHANGED <<subscribers, nextID, unsubId, subWaiting, unsubWaiting,
                   pubVars, panicked, subCalls, unsubCalls, unsubDone, snap,
                   before, fullAt, atUnsub, afterUnsub, replayVars, unitVars,
                   cancelled, sent, sentLate, sendFailed, wUnsub, subStart,
                   startedAfter>>

\* stream.Send whose failure returns without running the deferred call
WatchSendNoDefer(h) ==
    /\ ~panicked
    /\ h <= Len(chans)
    /\ wpc[h] = "send"
    /\ \/ /\ sent' = [sent EXCEPT ![h] = Append(@, wev[h])]
          /\ sentLate' = IF wlate[h]
                         THEN [sentLate EXCEPT ![h] = Append(@, wev[h])]
                         ELSE sentLate
          /\ wpc' = [wpc EXCEPT ![h] = "select"]
          /\ UNCHANGED <<wret, sendFailed>>
       \/ /\ sendFailed' = [sendFailed EXCEPT ![h] = TRUE]
          /\ wret' = [wret EXCEPT ![h] = "sendErr"]
          /\ wpc' = [wpc EXCEPT ![h] = "unsub"]
          /\ UNCHANGED <<sent, sentLate>>
    /\ UNCHANGED <<brokerVars, pubVars, panicked, histVars, replayVars, unitVars,
                   wev,
                   wlate, cancelled, wUnsub>>

\* stream.Send(&WatchResponse{Event: domainToProto(ev)}): the transport
\* accepts the message or reports an error; if err != nil { return err }
WatchSend(h) ==
    /\ ~panicked
    /\ h <= Len(chans)
    /\ wpc[h] = "send"
    /\ \/ /\ sent' = [sent EXCEPT ![h] = Append(@, wev[h])]
          /\ sentLate' = IF wlate[h]
                         THEN [sentLate EXCEPT ![h] = Append(@, wev[h])]
                         ELSE sentLate
          /\ wpc' = [wpc EXCEPT ![h] = "select"]
          /\ UNCHANGED <<wret, sendFailed>>
       \/ /\ sendFailed' = [sendFailed EXCEPT ![h] = TRUE]
          /\ wret' = [wret EXCEPT ![h] = "sendErr"]
          /\ wpc' = [wpc EXCEPT ![h] = "defer"]
          /\ UNCHANGED <<sent, sentLate>>
    /\ UNCHANGED <<brokerVars, pubVars, panicked, histVars, replayVars, unitVars,
                   wev,
                   wlate, cancelled, wUnsub>>

\* defer unsub(): the return calls the unsubscribe closure, which waits for
\* the exclusive lock (Unsubscribe(h) is its body)
WatchDefer(h) ==
    /\ ~panicked
    /\ h <= Len(chans)
    /\ wpc[h] = "defer"
    /\ wpc' = [wpc EXCEPT ![h] = "unsub"]
    /\ wUnsub' = [wUnsub EXCEPT ![h] = @ + 1]
    /\ unsubCalls' = unsubCalls + 1
    /\ unsubWaiting' = [unsubWaiting EXCEPT ![h] = @ + 1]
    /\ UNCHANGED <<subscribers, nextID, chans, unsubId, subWaiting, pubVars,
                   panicked, subCalls, unsubDone, snap, before, fullAt,
                   received, atUnsub, afterUnsub, closedSeen, replayVars,
                   unitVars, wev, wlate, cancelled, wret, sent, sentLate,
                   sendFailed, subStart, startedAfter>>

\* Publish(event), called by one publisher that makes its calls in turn
PublishOneAtATime(e) == Readers = {} /\ PublishCall(e)

\* Watch calls, one publisher, and cancellations of the calls' contexts
NextWatch ==
    \/ SubscribeCall
    \/ Subscribe
    \/ \E h \in Handles : Cancel(h)
    \/ \E h \in Handles : WatchCtxDone(h)
    \/ \E h \in Handles : WatchRecv(h)
    \/ \E h \in Handles : WatchSend(h)
    \/ \E h \in Handles : WatchDefer(h)
    \/ \E h \in Handles : Unsubscribe(h)
    \/ \E e \in Events : PublishOneAtATime(e)
    \/ \E e \in Events : PublishLoop(e)
    \/ \E e \in Events : PublishReturn(e)

SpecWatch == Init /\ [][NextWatch]_vars

\* ----------------------------------------------------------------- C12
\* C12: whichever way a Watch call returns, its subscription is removed
\* exactly once: the call has called its unsubscribe once, its id is out of
\* the registry and its queue is closed; and SubscriberCount counts exactly
\* the Watch calls that subscribed and have not returned, so it is back at
\* its earlier value once the call is gone.
C12_WatchExitUnsubscribes ==
    /\ \A h \in Made :
          /\ wUnsub[h] <= 1
          /\ wpc[h] \in {"select", "send", "defer"} => wUnsub[h] = 0
          /\ WatchReturned(h) =>
                /\ wUnsub[h] = 1
                /\ unsubDone[h] = 1
                /\ unsubId[h] \notin DOMAIN subscribers
                /\ chans[h].closed
    /\ SubscriberCount = Cardinality({h \in Made : ~WatchReturned(h)})

\* two Watch calls have returned, one on cancellation and one on a failed
\* send, and the broker has no subscriber left
C12_Witness ==
    /\ Len(chans) = MaxSubs
    /\ \A h \in Made : WatchReturned(h)
    /\ \E h \in Made : wret[h] = "ctxErr"
    /\ \E h \in Made : wret[h] = "sendErr"
    /\ SubscriberCount = 0
    /\ ~panicked

\* ----------------------------------------------------------------- C13
\* C13: a Watch call returns in exactly three ways: the context's error,
\* and only when its context is cancelled; nil, and only when it observed
\* its queue closed; the send error, exactly when a stream.Send failed.
\* While it loops it has no return value.
C13_WatchReturnValue ==
    \A h \in Made :
        /\ wpc[h] \in {"select", "send"} => wret[h] = "none"
        /\ wpc[h] \in {"defer", "unsub"} => wret[h] \in {"ctxErr", "nil", "sendErr"}
        /\ wret[h] = "ctxErr" => cancelled[h] /\ ~sendFailed[h]
        /\ wret[h] = "nil" => closedSeen[h] /\ chans[h].buf = <<>>
        /\ wret[h] = "sendErr" <=> sendFailed[h]

\* one call returned the context's error after it had sent an event, and
\* another returned the send error with its context never cancelled
C13_Witness ==
    \E h, k \in Made :
        /\ wret[h] = "ctxErr" /\ WatchReturned(h) /\ sent[h] # <<>>
        /\ wret[k] = "sendErr" /\ WatchReturned(k) /\ ~cancelled[k]

\* ----------------------------------------------------------------- C14
\* C14 (as the claim states it): once the context of a Watch call is
\* cancelled, no event is sent to the stream: no event that the loop took
\* from its queue after the cancellation is ever accepted by stream.Send.
\* The select has no priority between its cases, so with ctx.Done() ready
\* and an event queued the receive case may be chosen.
C14_NoSendAfterCancel ==
    \A h \in Handles : sentLate[h] = <<>>

\* ----------------------------------------------------------------- C15
\* the Go scheduler runs a goroutine that can take a step: a Watch loop
\* that can receive or send does so
WatchFairness ==
    \A h \in Handles : WF_vars(WatchRecv(h)) /\ WF_vars(WatchSend(h))

SpecWatchLive == SpecWatch /\ WatchFairness

\* the event the loop has taken from its queue and not yet sent
InHand(h) == IF wpc[h] = "send" THEN <<wev[h]>> ELSE <<>>

Range(s) == {s[i] : i \in 1..Len(s)}

\* what was sent, then what is in hand, then what is queued, is what was
\* placed in the queue, in that order and each event once
SentInQueueOrder ==
    \A h \in Made :
        ~sendFailed[h] => received[h] = sent[h] \o InHand(h)

\* C15: while the context of a Watch call is not cancelled and its sends
\* succeed, every event placed in its queue is eventually sent to the
\* stream, each exactly once and in queue order.
C15_QueuedEventsAreSent ==
    /\ []SentInQueueOrder
    /\ \A h \in Handles : \A e \in Events :
          (h \in Made /\ e \in Range(chans[h].buf))
              ~> (e \in Range(sent[h]) \/ cancelled[h] \/ sendFailed[h])

\* a call that was never cancelled and had no failed send has sent every
\* published event, more than its queue holds at a time
C15_Witness ==
    \E h \in Made :
        /\ ~cancelled[h]
        /\ ~sendFailed[h]
        /\ Len(sent[h]) = MaxEvents
        /\ chans[h].buf = <<>>

\* ================================================================= replay
\* Client.Send: one call, from ParseMethod to its return.  The target
\* server, the transport and the caller's context are the environment.

MaxMethodLen == 4     \* longest req.Method given to Send

\* the characters of a method string: the separator and one other
Chars == {"/", "a"}

Methods == UNION {[1..k -> Chars] : k \in 0..MaxMethodLen}

\* req.PayloadJSON: empty, the empty object, an object of fields of the
\* input message, an object with a field the message lacks, not JSON
Payloads == {"", "{}", "fields", "unknownField", "notJSON"}

\* the statuses an invocation ends with, and uint32(st.Code()) of each
Statuses == {"OK", "Canceled", "Unknown", "DeadlineExceeded", "NotFound"}

Code == [OK |-> 0, Canceled |-> 1, Unknown |-> 2, DeadlineExceeded |-> 4,
         NotFound |-> 5]

\* st.Message()
Message(st) == <<"message of", st>>

\* response messages: one of plain fields, and one holding an Any whose
\* type the JSON marshaller cannot resolve
Responses == {"plain", "unresolvableAny"}

\* method descriptors of the service: unary, or streaming on either side
Descs == [client : BOOLEAN, server : BOOLEAN]

\* strings.TrimPrefix(s, "/")
TrimPrefix(s) == IF s # <<>> /\ Head(s) = "/" THEN Tail(s) ELSE s

\* the split taken at the last separator instead of the first
SplitNAtLast(s) ==
    LET seps == {i \in 1..Len(s) : s[i] = "/"}
    IN IF seps = {}
       THEN <<s>>
       ELSE LET i == CHOOSE x \in seps : \A y \in seps : x >= y
            IN <<SubSeq(s, 1, i - 1), SubSeq(s, i + 1, Len(s))>>

\* strings.SplitN(s, "/", 2): split at the first separator, if there is one
SplitN(s) ==
    LET seps == {i \in 1..Len(s) : s[i] = "/"}
    IN IF seps = {}
       THEN <<s>>
       ELSE LET i == CHOOSE x \in seps : \A y \in seps : x <= y
            IN <<SubSeq(s, 1, i - 1), SubSeq(s, i + 1, Len(s))>>

\* ParseMethod that accepts an empty method name
ParseMethodEmptyMethod(fullMethod) ==
    LET parts == SplitN(TrimPrefix(fullMethod))
    IN IF Len(parts) # 2 \/ parts[1] = <<>>
       THEN [err |-> TRUE, svc |-> <<>>, method |-> <<>>]
       ELSE [err |-> FALSE, svc |-> parts[1], method |-> parts[2]]

\* ParseMethod(fullMethod)
ParseMethod(fullMethod) ==
    LET parts == SplitN(TrimPrefix(fullMethod))
    IN IF Len(parts) # 2 \/ parts[1] = <<>> \/ parts[2] = <<>>
       THEN [err |-> TRUE, svc |-> <<>>, method |-> <<>>]
       ELSE [err |-> FALSE, svc |-> parts[1], method |-> parts[2]]

\* protojson.Unmarshal(payload, reqMsg) returns no error
Unmarshals(payload) == payload \in {"{}", "fields"}

\* protojson.Marshal(respMsg) returns no error
Marshals(resp) == resp = "plain"

\* string(respJSON)
JSONOf(resp) == <<"json of", resp>>


\* ---------------------------------------------------------------- metadata
\* header names are strings, written as sequences of characters

MaxMdEntries == 2     \* most entries of a req.Metadata map

\* ReplayMetadataKey
ReplayMetadataKey == <<"x", "-", "g", "r", "p", "c", "-", "s", "c", "o", "p", "e", "-", "r", "e", "p", "l", "a", "y">>

\* the names FilterMetadata drops, and the prefix it drops
KeyAuthority == <<":", "a", "u", "t", "h", "o", "r", "i", "t", "y">>
KeyContentType == <<"c", "o", "n", "t", "e", "n", "t", "-", "t", "y", "p", "e">>
KeyUserAgent == <<"u", "s", "e", "r", "-", "a", "g", "e", "n", "t">>
KeyTE == <<"t", "e">>
PrefixGrpc == <<"g", "r", "p", "c", "-">>

\* header names a request may hold, in several spellings
Keys ==
    { ReplayMetadataKey,
      <<"X", "-", "G", "r", "p", "c", "-", "S", "c", "o", "p", "e", "-", "R", "e", "p", "l", "a", "y">>,
      KeyAuthority,
      KeyContentType,
      <<"C", "o", "n", "t", "e", "n", "t", "-", "T", "y", "p", "e">>,
      KeyUserAgent,
      KeyTE,
      <<"T", "E">>,
      <<"t", "e", "a">>,
      <<"g", "r", "p", "c", "-", "t">>,
      <<"G", "r", "p", "c", "-", "T">>,
      <<"g", "r", "p", "c">>,
      <<"x", "-", "i", "d">>,
      <<"X", "-", "I", "d">> }

\* the header names of the requests that Send is called with
ReplayKeys ==
    { ReplayMetadataKey,
      <<"X", "-", "G", "r", "p", "c", "-", "S", "c", "o", "p", "e", "-", "R", "e", "p", "l", "a", "y">>,
      KeyContentType,
      <<"x", "-", "i", "d">>,
      <<"X", "-", "I", "d">> }

\* the value lists of an entry
Values == {<<"1">>, <<"1", "2">>}

\* strings.ToLower, character by character
LowerChar(c) ==
    CASE c = "C" -> "c"
      [] c = "E" -> "e"
      [] c = "G" -> "g"
      [] c = "I" -> "i"
      [] c = "R" -> "r"
      [] c = "S" -> "s"
      [] c = "T" -> "t"
      [] c = "X" -> "x"
      [] OTHER -> c

ToLower(k) == [i \in 1..Len(k) |-> LowerChar(k[i])]

\* strings.HasPrefix(s, prefix)
HasPrefix(s, prefix) ==
    Len(s) >= Len(prefix) /\ SubSeq(s, 1, Len(prefix)) = prefix

\* a non-nil map with the entries of kv
MD(kv) == [isNil |-> FALSE, kv |-> kv]

\* the maps over the names of ks with at most MaxMdEntries entries, and nil
MapsOver(ks) ==
    {NilMD} \cup
    UNION {{MD(kv) : kv \in [d -> Values]} :
              d \in {x \in SUBSET ks : Cardinality(x) <= MaxMdEntries}}

ReplayMetadatas == MapsOver(ReplayKeys)

\* the condition under which FilterMetadata skips an entry
Skipped(lower) ==
    \/ lower = KeyAuthority
    \/ lower = KeyContentType
    \/ lower = KeyUserAgent
    \/ lower = KeyTE
    \/ HasPrefix(lower, PrefixGrpc)

\* FilterMetadata(md), as the set of maps it can return: the range over md
\* visits the entries in an unspecified order, and of the entries whose
\* names have the same lower-case form the one visited last is the one
\* that out[lower] = v leaves in out
FilterMetadata(md) ==
    IF md.isNil
    THEN {NilMD}
    ELSE LET keep == {k \in DOMAIN md.kv : ~Skipped(ToLower(k))}
             lowers == {ToLower(k) : k \in keep}
             last == {f \in [lowers -> keep] : \A l \in lowers : ToLower(f[l]) = l}
         IN IF keep = {}
            THEN {NilMD}
            ELSE {MD([l \in lowers |-> md.kv[f[l]]]) : f \in last}

\* md.Append(k, vals...) in the place of md.Set
SetAppends(md, k, vals) ==
    LET key == ToLower(k)
    IN MD([x \in DOMAIN md.kv \cup {key} |->
              IF x = key
              THEN (IF key \in DOMAIN md.kv THEN md.kv[key] ELSE <<>>) \o vals
              ELSE md.kv[x]])

\* md.Set(k, vals...): md[strings.ToLower(k)] = vals
Set(md, k, vals) ==
    LET key == ToLower(k)
    IN MD([x \in DOMAIN md.kv \cup {key} |->
              IF x = key THEN vals ELSE md.kv[x]])

nonReplayVars == <<brokerVars, pubVars, panicked, histVars, watchVars,
                   unitVars>>

\* ------------------------------------------------------ reflection reply
MaxFiles == 3         \* most file descriptors in one reflection response

\* serialized file descriptors a server may send: the file that declares
\* the requested symbol, with and without an import; the imported file; a
\* file of another name that declares the requested symbol too; and bytes
\* that are no file descriptor
FileS == [name |-> "s", deps |-> {}, syms |-> {"requested"}, ok |-> TRUE]
FileSImportsD == [name |-> "s", deps |-> {"d"}, syms |-> {"requested"}, ok |-> TRUE]
FileD == [name |-> "d", deps |-> {}, syms |-> {"other"}, ok |-> TRUE]
FileClash == [name |-> "c", deps |-> {}, syms |-> {"requested"}, ok |-> TRUE]
Garbage == [name |-> "", deps |-> {}, syms |-> {}, ok |-> FALSE]

Raws == {FileS, FileSImportsD, FileD, FileClash, Garbage}

\* fdResp.GetFileDescriptorProto()
FileLists == UNION {[1..k -> Raws] : k \in 0..MaxFiles}

\* the responses stream.Recv may return: file descriptors, an error
\* response, or a response that is neither
Replies ==
    {[kind |-> "fd", files |-> fs] : fs \in FileLists}
        \cup {[kind |-> "error", files |-> <<>>],
              [kind |-> "other", files |-> <<>>]}

\* files.FindFileByPath(name) returns no error
FindFileByPath(files, name) == \E f \in files : f.name = name

\* protodesc.NewFile(fdProto, files) returns no error: every import of the
\* file is found in files
NewFile(raw, files) == \A d \in raw.deps : FindFileByPath(files, d)

\* files.RegisterFile(fd) returns no error: neither the name of the file
\* nor a name it declares is in files already
RegisterFile(raw, files) ==
    /\ ~FindFileByPath(files, raw.name)
    /\ \A f \in files : f.syms \cap raw.syms = {}

\* files.FindDescriptorByName(svc) returns no error
FindDescriptorByName(files) == \E f \in files : "requested" \in f.syms

\* --------------------------------------------------------------- Send
\* Send is called with a request; the caller's context is live
ReplayInit ==
    /\ rpc = "parse"
    /\ rMethod \in Methods
    /\ rPayload \in Payloads
    /\ rCtx = "live"
    /\ rSvc = <<>>
    /\ rMeth = <<>>
    /\ rDesc = NoDesc
    /\ rNet = {}
    /\ rCancelHit = FALSE
    /\ rStatus = "none"
    /\ rResp = "none"
    /\ rResult = NoResult
    /\ rErr = "none"
    /\ rMeta = NilMD
    /\ rMd = NilMD
    /\ rReply = NoReply
    /\ rTodo = <<>>
    /\ rRegistry = {}
    /\ rRegLog = <<>>
    /\ rSymbol = "none"

InitReplay == BrokerInit /\ WatchInit /\ ReplayInit /\ UnitIdle

\* return nil, err
ReturnErr(e) ==
    /\ rErr' = e
    /\ rpc' = "done"

\* the caller cancels ctx while Send runs
CallerCancel ==
    /\ rpc \notin {"idle", "done"}
    /\ rCtx = "live"
    /\ rCtx' = "cancelled"
    /\ UNCHANGED <<nonReplayVars, rpc, rMethod, rPayload, rSvc, rMeth, rDesc,
                   rNet, rCancelHit, rStatus, rResp, rResult, rErr, rMeta,
                   rMd, rReply, rTodo, rRegistry, rRegLog, rSymbol>>

\* svc, method, err := ParseMethod(req.Method); if err != nil return nil, err
SendParseMethod ==
    /\ rpc = "parse"
    /\ LET r == ParseMethod(rMethod)
       IN IF r.err
          THEN /\ ReturnErr("invalid method format")
               /\ UNCHANGED <<rSvc, rMeth>>
          ELSE /\ rSvc' = r.svc
               /\ rMeth' = r.method
               /\ rpc' = "open"
               /\ UNCHANGED rErr
    /\ UNCHANGED <<nonReplayVars, rMethod, rPayload, rCtx, rDesc, rNet,
                   rCancelHit, rStatus, rResp, rResult, rMeta, rMd, rReply,
                   rTodo, rRegistry, rRegLog, rSymbol>>

\* resolveMethod: refClient.ServerReflectionInfo(ctx) opens the stream; it
\* fails on a cancelled context, and may fail in the transport
ResolveOpen ==
    /\ rpc = "open"
    /\ rNet' = rNet \cup {"reflect"}
    /\ IF rCtx = "cancelled"
       THEN /\ rCancelHit' = TRUE
            /\ ReturnErr("open reflection stream")
       ELSE /\ UNCHANGED rCancelHit
            /\ \/ ReturnErr("open reflection stream")
               \/ rpc' = "send" /\ UNCHANGED rErr
    /\ UNCHANGED <<nonReplayVars, rMethod, rPayload, rCtx, rSvc, rMeth,
                   rDesc, rStatus, rResp, rResult, rMeta, rMd, rReply, rTodo,
                   rRegistry, rRegLog, rSymbol>>

\* resolveMethod: stream.Send(FileContainingSymbol: svc)
ResolveSend ==
    /\ rpc = "send"
    /\ IF rCtx = "cancelled"
       THEN /\ rCancelHit' = TRUE
            /\ ReturnErr("send reflection request")
       ELSE /\ UNCHANGED rCancelHit
            /\ \/ ReturnErr("send reflection request")
               \/ rpc' = "recv" /\ UNCHANGED rErr
    /\ UNCHANGED <<nonReplayVars, rMethod, rPayload, rCtx, rSvc, rMeth,
                   rDesc, rNet, rStatus, rResp, rResult, rMeta, rMd, rReply,
                   rTodo, rRegistry, rRegLog, rSymbol>>

\* a Recv step that takes every response for a file descriptor response
ResolveRecvIgnoresKind ==
    /\ rpc = "recv"
    /\ IF rCtx = "cancelled"
       THEN /\ rCancelHit' = TRUE
            /\ ReturnErr("recv reflection response")
            /\ UNCHANGED <<rReply, rTodo>>
       ELSE /\ UNCHANGED rCancelHit
            /\ \/ /\ ReturnErr("recv reflection response")
                  /\ UNCHANGED <<rReply, rTodo>>
               \/ \E reply \in Replies :
                     /\ rReply' = reply
                     /\ rTodo' = reply.files
                     /\ rpc' = "files"
                     /\ UNCHANGED rErr
    /\ UNCHANGED <<nonReplayVars, rMethod, rPayload, rCtx, rSvc, rMeth,
                   rDesc, rNet, rStatus, rResp, rResult, rMeta, rMd,
                   rRegistry, rRegLog, rSymbol>>

\* resolveMethod: stream.Recv(), then the kind of the response: without
\* file descriptors it is an error response or an unexpected one
ResolveRecv ==
    /\ rpc = "recv"
    /\ IF rCtx = "cancelled"
       THEN /\ rCancelHit' = TRUE
            /\ ReturnErr("recv reflection response")
            /\ UNCHANGED <<rReply, rTodo>>
       ELSE /\ UNCHANGED rCancelHit
            /\ \/ /\ ReturnErr("recv reflection response")
                  /\ UNCHANGED <<rReply, rTodo>>
               \/ \E reply \in Replies :
                     /\ rReply' = reply
                     /\ IF reply.kind = "fd"
                        THEN /\ rTodo' = reply.files
                             /\ rpc' = "files"
                             /\ UNCHANGED rErr
                        ELSE /\ UNCHANGED rTodo
                             /\ IF reply.kind = "error"
                                THEN ReturnErr("reflection error")
                                ELSE ReturnErr("unexpected reflection response")
    /\ UNCHANGED <<nonReplayVars, rMethod, rPayload, rCtx, rSvc, rMeth,
                   rDesc, rNet, rStatus, rResp, rResult, rMeta, rMd,
                   rRegistry, rRegLog, rSymbol>>

\* one turn of the loop without the FindFileByPath check
ResolveFilesNoSkip ==
    /\ rpc = "files"
    /\ IF rTodo = <<>>
       THEN /\ rpc' = "find"
            /\ UNCHANGED <<rErr, rTodo, rRegistry, rRegLog>>
       ELSE LET raw == Head(rTodo)
            IN IF ~raw.ok
               THEN /\ ReturnErr("unmarshal file descriptor")
                    /\ UNCHANGED <<rTodo, rRegistry, rRegLog>>
               ELSE IF ~NewFile(raw, rRegistry)
               THEN /\ ReturnErr("build file descriptor")
                    /\ UNCHANGED <<rTodo, rRegistry, rRegLog>>
               ELSE /\ rRegLog' = Append(rRegLog, raw.name)
                    /\ IF RegisterFile(raw, rRegistry)
                       THEN /\ rRegistry' = rRegistry \cup {raw}
                            /\ rTodo' = Tail(rTodo)
                            /\ UNCHANGED <<rpc, rErr>>
                       ELSE /\ ReturnErr("register file descriptor")
                            /\ UNCHANGED <<rTodo, rRegistry>>
    /\ UNCHANGED <<nonReplayVars, rMethod, rPayload, rCtx, rSvc, rMeth,
                   rDesc, rNet, rCancelHit, rStatus, rResp, rResult, rMeta,
                   rMd, rReply, rSymbol>>

\* resolveMethod: one turn of the loop over the files of the response
\* (decode; skip a file whose name is registered; build; register), or the
\* end of the loop
ResolveFiles ==
    /\ rpc = "files"
    /\ IF rTodo = <<>>
       THEN /\ rpc' = "find"
            /\ UNCHANGED <<rErr, rTodo, rRegistry, rRegLog>>
       ELSE LET raw == Head(rTodo)
            IN IF ~raw.ok
               THEN /\ ReturnErr("unmarshal file descriptor")
                    /\ UNCHANGED <<rTodo, rRegistry, rRegLog>>
               ELSE IF FindFileByPath(rRegistry, raw.name)
               THEN /\ rTodo' = Tail(rTodo)
                    /\ UNCHANGED <<rpc, rErr, rRegistry, rRegLog>>
               ELSE IF ~NewFile(raw, rRegistry)
               THEN /\ ReturnErr("build file descriptor")
                    /\ UNCHANGED <<rTodo, rRegistry, rRegLog>>
               ELSE /\ rRegLog' = Append(rRegLog, raw.name)
                    /\ IF RegisterFile(raw, rRegistry)
                       THEN /\ rRegistry' = rRegistry \cup {raw}
                            /\ rTodo' = Tail(rTodo)
                            /\ UNCHANGED <<rpc, rErr>>
                       ELSE /\ ReturnErr("register file descriptor")
                            /\ UNCHANGED <<rTodo, rRegistry>>
    /\ UNCHANGED <<nonReplayVars, rMethod, rPayload, rCtx, rSvc, rMeth,
                   rDesc, rNet, rCancelHit, rStatus, rResp, rResult, rMeta,
                   rMd, rReply, rSymbol>>

\* resolveMethod returns: of what it worked with, the two descriptors are
\* all that is left
ResolveReturn ==
    /\ rReply' = NoReply
    /\ rRegistry' = {}
    /\ rRegLog' = <<>>

\* resolveMethod without the check of the streaming flags
ResolveFindNoStreamingCheck ==
    /\ rpc = "find"
    /\ IF ~FindDescriptorByName(rRegistry)
       THEN /\ rSymbol' = "absent"
            /\ ReturnErr("find service")
            /\ UNCHANGED <<rDesc, rReply, rRegistry, rRegLog>>
       ELSE \/ /\ rSymbol' = "message"
               /\ ReturnErr("not a service")
               /\ UNCHANGED <<rDesc, rReply, rRegistry, rRegLog>>
            \/ /\ rSymbol' = "service"
               /\ ReturnErr("method not found")
               /\ UNCHANGED <<rDesc, rReply, rRegistry, rRegLog>>
            \/ /\ rSymbol' = "service"
               /\ \E d \in Descs :
                     /\ rDesc' = d
                     /\ rpc' = "unmarshal"
                     /\ UNCHANGED rErr
                     /\ ResolveReturn
    /\ UNCHANGED <<nonReplayVars, rMethod, rPayload, rCtx, rSvc, rMeth, rNet,
                   rCancelHit, rStatus, rResp, rResult, rMeta, rMd, rTodo>>

\* resolveMethod: FindDescriptorByName(svc), the ServiceDescriptor type
\* check, Methods().ByName(method), and the check of the streaming flags;
\* what the registered files declare under the name is the server's choice
ResolveFind ==
    /\ rpc = "find"
    /\ IF ~FindDescriptorByName(rRegistry)
       THEN /\ rSymbol' = "absent"
            /\ ReturnErr("find service")
            /\ UNCHANGED <<rDesc, rReply, rRegistry, rRegLog>>
       ELSE \/ /\ rSymbol' = "message"
               /\ ReturnErr("not a service")
               /\ UNCHANGED <<rDesc, rReply, rRegistry, rRegLog>>
            \/ /\ rSymbol' = "service"
               /\ ReturnErr("method not found")
               /\ UNCHANGED <<rDesc, rReply, rRegistry, rRegLog>>
            \/ /\ rSymbol' = "service"
               /\ \E d \in Descs :
                     /\ rDesc' = d
                     /\ IF d.client \/ d.server
                        THEN /\ ReturnErr("streaming methods cannot be replayed")
                             /\ UNCHANGED <<rReply, rRegistry, rRegLog>>
                        ELSE /\ rpc' = "unmarshal"
                             /\ UNCHANGED rErr
                             /\ ResolveReturn
    /\ UNCHANGED <<nonReplayVars, rMethod, rPayload, rCtx, rSvc, rMeth, rNet,
                   rCancelHit, rStatus, rResp, rResult, rMeta, rMd, rTodo>>

\* a Send that invokes the call whatever protojson.Unmarshal returned
SendUnmarshalIgnoresError ==
    /\ rpc = "unmarshal"
    /\ rpc' = "metadata"
    /\ UNCHANGED <<nonReplayVars, rMethod, rPayload, rCtx, rSvc, rMeth,
                   rDesc, rNet, rCancelHit, rStatus, rResp, rResult, rErr,
                   rMeta, rMd, rReply, rTodo, rRegistry, rRegLog, rSymbol>>

\* payload "" becomes "{}"; protojson.Unmarshal(payload, reqMsg)
SendUnmarshal ==
    /\ rpc = "unmarshal"
    /\ LET payload == IF rPayload = "" THEN "{}" ELSE rPayload
       IN IF Unmarshals(payload)
          THEN rpc' = "metadata" /\ UNCHANGED rErr
          ELSE ReturnErr("unmarshal request JSON")
    /\ UNCHANGED <<nonReplayVars, rMethod, rPayload, rCtx, rSvc, rMeth,
                   rDesc, rNet, rCancelHit, rStatus, rResp, rResult, rMeta,
                   rMd, rReply, rTodo, rRegistry, rRegLog, rSymbol>>

\* md := FilterMetadata(req.Metadata); if md == nil { md = metadata.MD{} };
\* md.Set(ReplayMetadataKey, "true"); outCtx carries md.  req.Metadata is
\* read here for the first time
SendMetadata ==
    /\ rpc = "metadata"
    /\ \E m \in ReplayMetadatas :
          /\ rMeta' = m
          /\ \E f \in FilterMetadata(m) :
                rMd' = Set(IF f.isNil THEN MD(<<>>) ELSE f,
                           ReplayMetadataKey, <<"true">>)
    /\ rpc' = "invoke"
    /\ UNCHANGED <<nonReplayVars, rMethod, rPayload, rCtx, rSvc, rMeth,
                   rDesc, rNet, rCancelHit, rStatus, rResp, rResult, rErr,
                   rReply, rTodo, rRegistry, rRegLog, rSymbol>>

\* what Send does with the outcome of the invocation, with the status code
\* stored one higher, as the captured events store it
AfterInvokeOffsetCode(st, resp) ==
    /\ rStatus' = st
    /\ rResp' = resp
    /\ IF st # "OK"
       THEN /\ rResult' = [StatusCode |-> Code[st] + 1,
                           StatusMessage |-> Message(st),
                           ResponseJSON |-> ""]
            /\ rpc' = "done"
       ELSE /\ rpc' = "marshal"
            /\ UNCHANGED rResult

\* if invokeErr != nil: the status of the error goes into the result, which
\* is returned with a nil error; otherwise on to protojson.Marshal
AfterInvoke(st, resp) ==
    /\ rStatus' = st
    /\ rResp' = resp
    /\ IF st # "OK"
       THEN /\ rResult' = [StatusCode |-> Code[st],
                           StatusMessage |-> Message(st),
                           ResponseJSON |-> ""]
            /\ rpc' = "done"
       ELSE /\ rpc' = "marshal"
            /\ UNCHANGED rResult

\* c.conn.Invoke(callCtx, ...) under context.WithTimeout(outCtx, 30s): a
\* cancelled context ends it with Canceled, the timeout with
\* DeadlineExceeded; otherwise the server's status and response
SendInvoke ==
    /\ rpc = "invoke"
    /\ rNet' = rNet \cup {"invoke"}
    /\ IF rCtx = "cancelled"
       THEN /\ rCancelHit' = TRUE
            /\ AfterInvoke("Canceled", "none")
       ELSE \/ /\ rCancelHit' = TRUE
               /\ AfterInvoke("DeadlineExceeded", "none")
            \/ /\ UNCHANGED rCancelHit
               /\ \E st \in Statuses \ {"OK"} : AfterInvoke(st, "none")
            \/ /\ UNCHANGED rCancelHit
               /\ \E resp \in Responses : AfterInvoke("OK", resp)
    /\ UNCHANGED <<nonReplayVars, rMethod, rPayload, rCtx, rSvc, rMeth,
                   rDesc, rErr, rMeta, rMd, rReply, rTodo, rRegistry,
                   rRegLog, rSymbol>>

\* a marshal step that hands back the result together with the error
SendMarshalReturnsBoth ==
    /\ rpc = "marshal"
    /\ rResult' = [StatusCode |-> 0,
                   StatusMessage |-> "",
                   ResponseJSON |-> IF Marshals(rResp) THEN JSONOf(rResp) ELSE ""]
    /\ IF Marshals(rResp)
       THEN rpc' = "done" /\ UNCHANGED rErr
       ELSE ReturnErr("marshal response JSON")
    /\ UNCHANGED <<nonReplayVars, rMethod, rPayload, rCtx, rSvc, rMeth,
                   rDesc, rNet, rCancelHit, rStatus, rResp, rMeta, rMd,
                   rReply, rTodo, rRegistry, rRegLog, rSymbol>>

\* respJSON, err := protojson.Marshal(respMsg); the result carries the JSON
SendMarshal ==
    /\ rpc = "marshal"
    /\ IF Marshals(rResp)
       THEN /\ rResult' = [StatusCode |-> 0,
                           StatusMessage |-> "",
                           ResponseJSON |-> JSONOf(rResp)]
            /\ rpc' = "done"
            /\ UNCHANGED rErr
       ELSE /\ ReturnErr("marshal response JSON")
            /\ UNCHANGED rResult
    /\ UNCHANGED <<nonReplayVars, rMethod, rPayload, rCtx, rSvc, rMeth,
                   rDesc, rNet, rCancelHit, rStatus, rResp, rMeta, rMd,
                   rReply, rTodo, rRegistry, rRegLog, rSymbol>>

NextReplay ==
    \/ CallerCancel
    \/ SendParseMethod
    \/ ResolveOpen
    \/ ResolveSend
    \/ ResolveRecv
    \/ ResolveFiles
    \/ ResolveFind
    \/ SendUnmarshal
    \/ SendMetadata
    \/ SendInvoke
    \/ SendMarshal

SpecReplay == InitReplay /\ [][NextReplay]_vars

\* ----------------------------------------------------------------- C16
\* the method string, after one optional leading '/', is empty, has no
\* '/', or has nothing before or nothing after its first '/'
Malformed(m) ==
    LET t == IF m # <<>> /\ m[1] = "/" THEN SubSeq(m, 2, Len(m)) ELSE m
    IN ~(/\ t # <<>>
         /\ t[1] # "/"
         /\ \E k \in 2..(Len(t) - 1) : t[k] = "/")

\* C16: Send with a malformed method string makes no network call at all
\* (the reflection stream is not opened, nothing is invoked), and returns a
\* local error and no Result, straight from its first step.
C16_MalformedMethodIsLocalError ==
    Malformed(rMethod) =>
        /\ rNet = {}
        /\ rpc \in {"parse", "done"}
        /\ rpc = "done" =>
              rErr = "invalid method format" /\ rResult = NoResult

\* Send has returned for "/a/": a service and an empty method name
C16_Witness ==
    /\ rMethod = <<"/", "a", "/">>
    /\ rpc = "done"
    /\ rErr = "invalid method format"

\* ----------------------------------------------------------------- C17
\* C17 (as the claim states it): when Send returns the error of a payload
\* that does not conform to the input schema, no network call has been
\* made: neither the reflection round trip nor the invocation.
C17_PayloadErrorBeforeAnyNetworkCall ==
    rErr = "unmarshal request JSON" => rNet = {}

\* C17 (amended): a payload that does not conform to the input schema makes
\* Send return a local error and no Result before the invocation is
\* attempted, and after the reflection round trip that yields the schema;
\* an empty payload counts as "{}" and conforms.
C17_PayloadErrorBeforeInvocation ==
    /\ rPayload \in {"unknownField", "notJSON"} => "invoke" \notin rNet
    /\ rErr = "unmarshal request JSON" =>
          /\ rPayload \in {"unknownField", "notJSON"}
          /\ rNet = {"reflect"}
          /\ rResult = NoResult
          /\ rpc = "done"
    /\ (rPayload \in {"unknownField", "notJSON"} /\ rpc = "done") =>
          rErr # "none" /\ rResult = NoResult

\* Send has returned the payload error for a unary method it resolved
C17_Witness ==
    /\ rPayload = "notJSON"
    /\ rpc = "done"
    /\ rErr = "unmarshal request JSON"
    /\ rDesc = [client |-> FALSE, server |-> FALSE]

\* ----------------------------------------------------------------- C18
\* C18: when the method that was resolved is client-streaming or
\* server-streaming, Send returns a local error and no Result, and the
\* invocation is never made.
C18_StreamingMethodRejected ==
    (rDesc # NoDesc /\ (rDesc.client \/ rDesc.server)) =>
        /\ "invoke" \notin rNet
        /\ rpc = "done"
        /\ rErr = "streaming methods cannot be replayed"
        /\ rResult = NoResult

\* Send has returned for a method that streams its responses only
C18_Witness ==
    /\ rDesc = [client |-> FALSE, server |-> TRUE]
    /\ rpc = "done"
    /\ rErr = "streaming methods cannot be replayed"

\* ----------------------------------------------------------------- C19
\* C19 (as the claim states it): a Send that was cancelled, one of whose
\* network calls ended because the caller's context was cancelled or the
\* timeout expired, returns a local error and no Result.
C19_CancelledReplayIsLocalError ==
    (rpc = "done" /\ rCancelHit) => (rErr # "none" /\ rResult = NoResult)

\* ----------------------------------------------------------------- C20
\* C20 (as the claim states it): after an invocation with a non-OK status
\* Send returns a Result with that status code and message, an empty
\* ResponseJSON and a nil error; after an invocation that succeeded it
\* returns a Result with StatusCode 0 and the response in ResponseJSON.
C20_ResultAssembly ==
    (rpc = "done" /\ "invoke" \in rNet) =>
        /\ rErr = "none"
        /\ rResult # NoResult
        /\ rStatus # "OK" =>
              rResult = [StatusCode |-> Code[rStatus],
                         StatusMessage |-> Message(rStatus),
                         ResponseJSON |-> ""]
        /\ rStatus = "OK" =>
              /\ rResult.StatusCode = 0
              /\ rResult.ResponseJSON = JSONOf(rResp)

\* C20 (amended): after an invocation with a non-OK status Send returns a
\* Result with that native status code and message, an empty ResponseJSON
\* and a nil error; after an invocation that succeeded it returns a Result
\* with StatusCode 0 and the response in ResponseJSON if the response
\* marshals to JSON, and otherwise a local error and no Result.
C20_ResultAssemblyUnlessMarshalFails ==
    (rpc = "done" /\ "invoke" \in rNet) =>
        /\ rStatus # "OK" =>
              /\ rErr = "none"
              /\ rResult = [StatusCode |-> Code[rStatus],
                            StatusMessage |-> Message(rStatus),
                            ResponseJSON |-> ""]
              /\ rResult.StatusCode # 0
        /\ (rStatus = "OK" /\ Marshals(rResp)) =>
              /\ rErr = "none"
              /\ rResult # NoResult
              /\ rResult.StatusCode = 0
              /\ rResult.ResponseJSON = JSONOf(rResp)
        /\ (rStatus = "OK" /\ ~Marshals(rResp)) =>
              /\ rErr = "marshal response JSON"
              /\ rResult = NoResult

\* Send has returned the Result of an invocation that ended NotFound
C20_Witness ==
    /\ rpc = "done"
    /\ rStatus = "NotFound"
    /\ rResult # NoResult
    /\ rResult.StatusCode = Code["NotFound"]

\* ----------------------------------------------------------------- C21
\* C21: every Send returns exactly one of a local error (with a nil Result)
\* or a Result (with a nil error), never both and never neither; a Result
\* is returned only if the invocation was attempted; and until Send
\* returns it has produced neither.
C21_ErrorXorResult ==
    /\ rpc = "done" => ((rErr # "none") <=> (rResult = NoResult))
    /\ rResult # NoResult => (rpc = "done" /\ "invoke" \in rNet)
    /\ rErr # "none" => rpc = "done"

\* Send has returned an error although it made the invocation, which
\* succeeded with a response that does not marshal
C21_Witness ==
    /\ rpc = "done"
    /\ "invoke" \in rNet
    /\ rStatus = "OK"
    /\ rErr = "marshal response JSON"
    /\ rResult = NoResult

\* ----------------------------------------------------------------- C22
\* C22: every call that Send invokes carries the metadata key
\* x-grpc-scope-replay with the single value "true", and under no other
\* spelling of that name, whatever req.Metadata holds: nil, empty, only
\* entries that are filtered out, or that name in any letter case with
\* other values.
C22_ReplayMarkerOnEveryCall ==
    "invoke" \in rNet =>
        /\ ~rMd.isNil
        /\ ReplayMetadataKey \in DOMAIN rMd.kv
        /\ rMd.kv[ReplayMetadataKey] = <<"true">>
        /\ \A k \in DOMAIN rMd.kv :
              ToLower(k) = ReplayMetadataKey => k = ReplayMetadataKey

\* a call was invoked for a request that held the marker name in capitals
\* with two other values, next to a name that is filtered out
C22_Witness ==
    /\ "invoke" \in rNet
    /\ ~rMeta.isNil
    /\ DOMAIN rMeta.kv = {<<"X", "-", "G", "r", "p", "c", "-", "S", "c", "o", "p", "e", "-", "R", "e", "p", "l", "a", "y">>, KeyContentType}
    /\ rMeta.kv[<<"X", "-", "G", "r", "p", "c", "-", "S", "c", "o", "p", "e", "-", "R", "e", "p", "l", "a", "y">>] = <<"1", "2">>

\* ----------------------------------------------------------------- C23
\* Send has returned the local error e, with no Result and no invocation
LocalError(e) ==
    /\ rpc = "done"
    /\ rErr = e
    /\ rResult = NoResult
    /\ "invoke" \notin rNet

\* C23: when the reflection response is an error response, or is neither
\* a file descriptor response nor an error response, or the requested
\* symbol is found but is no service, or the service has no method of the
\* requested name, Send returns a local error and makes no invocation.
C23_DiscoveryErrorsAreLocal ==
    /\ rReply.kind = "error" => LocalError("reflection error")
    /\ rReply.kind = "other" => LocalError("unexpected reflection response")
    /\ rSymbol = "message" => LocalError("not a service")
    /\ (rSymbol = "service" /\ rDesc = NoDesc) => LocalError("method not found")

\* the files were registered, the service was found, the method was not
C23_Witness ==
    /\ rReply.kind = "fd"
    /\ rReply.files = <<FileD, FileSImportsD>>
    /\ rSymbol = "service"
    /\ rDesc = NoDesc
    /\ rErr = "method not found"

\* ----------------------------------------------------------------- C24
\* every name was given to RegisterFile at most once, and every registered
\* file exactly once
RegisteredOnce ==
    /\ \A i, j \in 1..Len(rRegLog) : rRegLog[i] = rRegLog[j] => i = j
    /\ \A f \in rRegistry : Count(f.name, rRegLog) = 1

\* the loop is at a file whose name is registered already
AtRegisteredName ==
    /\ rpc = "files"
    /\ rTodo # <<>>
    /\ Head(rTodo).ok
    /\ FindFileByPath(rRegistry, Head(rTodo).name)

\* C24: while the registry is built from one reflection response, a file
\* whose name is already registered is skipped: no name is registered more
\* than once, and the turn of the loop that meets such a file returns no
\* error and leaves the registry as it is.
C24_RegisteredFileIsSkipped ==
    /\ []RegisteredOnce
    /\ [][AtRegisteredName =>
            /\ rErr' = "none"
            /\ rRegistry' = rRegistry
            /\ rRegLog' = rRegLog]_vars

\* the loop has ended for a response that lists the imported file twice
C24_Witness ==
    /\ rpc = "find"
    /\ rReply.files = <<FileD, FileSImportsD, FileD>>
    /\ rRegLog = <<"d", "s">>
    /\ rErr = "none"

\* ----------------------------------------------------------------- C35
\* every file the files of fs import is a file of fs
HasAllImports(fs) ==
    \A i \in 1..Len(fs) : \A d \in fs[i].deps :
        \E j \in 1..Len(fs) : fs[j].name = d

\* C35 (as the claim states it): when the reflection response contains
\* every imported file, resolution does not fail to build a file for want
\* of an import, whatever the order of the files, and once the loop over
\* the files has ended every file of the response is in the registry.
C35_EveryFileRegisteredInAnyOrder ==
    (rReply.kind = "fd" /\ HasAllImports(rReply.files)) =>
        /\ rErr # "build file descriptor"
        /\ rpc = "find" =>
              \A i \in 1..Len(rReply.files) :
                  FindFileByPath(rRegistry, rReply.files[i].name)

\* ----------------------------------------------------------------- C25
\* the method string without its first character, when that is a slash
Stripped(m) == IF m # <<>> /\ m[1] = "/" THEN SubSeq(m, 2, Len(m)) ELSE m

\* position i holds the first slash of t
FirstSlash(t, i) ==
    /\ i \in 1..Len(t)
    /\ t[i] = "/"
    /\ \A j \in 1..(i - 1) : t[j] # "/"

\* t has a slash, with text before the first one and text after it
WellFormed(t) == \E i \in 2..(Len(t) - 1) : FirstSlash(t, i)

\* C25: ParseMethod strips at most one leading slash; it succeeds exactly
\* when the rest has a slash with non-empty text on both sides of the first
\* one, and then returns the text before that slash and the text after it;
\* every other input is a format error.
C25_ParseMethodSplitsAtFirstSlash ==
    rpc \notin {"idle", "parse"} =>
        LET t == Stripped(rMethod)
        IN IF WellFormed(t)
           THEN /\ rErr # "invalid method format"
                /\ \E i \in 2..(Len(t) - 1) :
                      /\ FirstSlash(t, i)
                      /\ rSvc = SubSeq(t, 1, i - 1)
                      /\ rMeth = SubSeq(t, i + 1, Len(t))
           ELSE /\ rpc = "done"
                /\ rErr = "invalid method format"
                /\ rSvc = <<>>
                /\ rMeth = <<>>

\* "a//a" is parsed: the method name keeps the second slash
C25_Witness ==
    /\ rMethod = <<"a", "/", "/", "a">>
    /\ rpc = "open"
    /\ rSvc = <<"a">>
    /\ rMeth = <<"/", "a">>

\* ======================================================= FilterMetadata
\* a caller is about to call FilterMetadata with a map over Keys
FilterInit ==
    /\ fpc = "call"
    /\ fmd \in MapsOver(Keys)
    /\ fout = NilMD

InitFilter ==
    /\ BrokerInit /\ WatchInit /\ ReplayIdle
    /\ FilterInit /\ StatusIdle /\ ScopeIdle /\ TuiIdle /\ CloseIdle

\* FilterMetadata(md) runs and returns; it only reads md
CallFilterMetadata ==
    /\ fpc = "call"
    /\ fout' \in FilterMetadata(fmd)
    /\ fpc' = "done"
    /\ UNCHANGED <<brokerVars, pubVars, panicked, histVars, watchVars,
                   replayVars, tuiVars, closeVars, fmd, statusVars, scopeVars>>

NextFilter ==
    \/ CallFilterMetadata

SpecFilter == InitFilter /\ [][NextFilter]_vars

\* ----------------------------------------------------------------- C26
\* the names of md that FilterMetadata does not drop
Surviving(md) == {k \in DOMAIN md.kv : ~Skipped(ToLower(k))}

\* C26: FilterMetadata returns exactly the entries of its input whose
\* lower-cased name is none of :authority, content-type, user-agent, te and
\* does not begin with grpc-, each under its lower-cased name with its
\* values as they were; it returns nil for a nil input and when no entry
\* survives; the input is left as it was.
C26_FilterKeepsEverySurvivingEntry ==
    /\ [](fpc = "done" =>
            IF fmd.isNil \/ Surviving(fmd) = {}
            THEN fout = NilMD
            ELSE /\ ~fout.isNil
                 /\ DOMAIN fout.kv = {ToLower(k) : k \in Surviving(fmd)}
                 /\ \A k \in Surviving(fmd) : fout.kv[ToLower(k)] = fmd.kv[k])
    /\ [][fmd' = fmd]_vars

\* =========================================================== StatusCode
MaxCode == 30         \* largest of the consecutive status codes tried

\* type StatusCode int32
MinInt32 == -2147483647 - 1
MaxInt32 == 2147483647

\* the constants of type StatusCode
StatusUnspecified == 0
StatusOK == 1
StatusCancelled == 2
StatusUnknown == 3
StatusInvalidArgument == 4
StatusDeadlineExceeded == 5
StatusNotFound == 6
StatusAlreadyExists == 7
StatusPermissionDenied == 8
StatusResourceExhausted == 9
StatusFailedPrecondition == 10
StatusAborted == 11
StatusOutOfRange == 12
StatusUnimplemented == 13
StatusInternal == 14
StatusUnavailable == 15
StatusDataLoss == 16
StatusUnauthenticated == 17

\* the status codes tried: the defined ones, their neighbours on both
\* sides, 99 and the ends of int32
StatusCodes == (-3..MaxCode) \cup {99, MinInt32, MaxInt32}

\* String() without the case of the last constant
StringWithoutLastCase(c) ==
    CASE c = StatusUnspecified -> "UNSPECIFIED"
      [] c = StatusOK -> "OK"
      [] c = StatusCancelled -> "CANCELLED"
      [] c = StatusUnknown -> "UNKNOWN"
      [] c = StatusInvalidArgument -> "INVALID_ARGUMENT"
      [] c = StatusDeadlineExceeded -> "DEADLINE_EXCEEDED"
      [] c = StatusNotFound -> "NOT_FOUND"
      [] c = StatusAlreadyExists -> "ALREADY_EXISTS"
      [] c = StatusPermissionDenied -> "PERMISSION_DENIED"
      [] c = StatusResourceExhausted -> "RESOURCE_EXHAUSTED"
      [] c = StatusFailedPrecondition -> "FAILED_PRECONDITION"
      [] c = StatusAborted -> "ABORTED"
      [] c = StatusOutOfRange -> "OUT_OF_RANGE"
      [] c = StatusUnimplemented -> "UNIMPLEMENTED"
      [] c = StatusInternal -> "INTERNAL"
      [] c = StatusUnavailable -> "UNAVAILABLE"
      [] c = StatusDataLoss -> "DATA_LOSS"
      [] OTHER -> "UNKNOWN"

\* func (c StatusCode) String() string
String(c) ==
    CASE c = StatusUnspecified -> "UNSPECIFIED"
      [] c = StatusOK -> "OK"
      [] c = StatusCancelled -> "CANCELLED"
      [] c = StatusUnknown -> "UNKNOWN"
      [] c = StatusInvalidArgument -> "INVALID_ARGUMENT"
      [] c = StatusDeadlineExceeded -> "DEADLINE_EXCEEDED"
      [] c = StatusNotFound -> "NOT_FOUND"
      [] c = StatusAlreadyExists -> "ALREADY_EXISTS"
      [] c = StatusPermissionDenied -> "PERMISSION_DENIED"
      [] c = StatusResourceExhausted -> "RESOURCE_EXHAUSTED"
      [] c = StatusFailedPrecondition -> "FAILED_PRECONDITION"
      [] c = StatusAborted -> "ABORTED"
      [] c = StatusOutOfRange -> "OUT_OF_RANGE"
      [] c = StatusUnimplemented -> "UNIMPLEMENTED"
      [] c = StatusInternal -> "INTERNAL"
      [] c = StatusUnavailable -> "UNAVAILABLE"
      [] c = StatusDataLoss -> "DATA_LOSS"
      [] c = StatusUnauthenticated -> "UNAUTHENTICATED"
      [] OTHER -> "UNKNOWN"

\* IsError() that takes only the codes after OK for errors
IsErrorAboveOK(e) == e.StatusCode > StatusOK

\* func (e CallEvent) IsError() bool
IsError(e) == e.StatusCode # StatusOK

\* a CallEvent with any status code
StatusInit ==
    /\ sCode \in StatusCodes
    /\ sCalled = {}
    /\ sString = ""
    /\ sIsError = FALSE

InitStatus ==
    /\ BrokerInit /\ WatchInit /\ ReplayIdle
    /\ FilterIdle /\ StatusInit /\ ScopeIdle /\ TuiIdle /\ CloseIdle

\* e.StatusCode.String()
CallString ==
    /\ "String" \notin sCalled
    /\ sString' = String(sCode)
    /\ sCalled' = sCalled \cup {"String"}
    /\ UNCHANGED <<brokerVars, pubVars, panicked, histVars, watchVars,
                   replayVars, tuiVars, closeVars, filterVars, scopeVars, sCode, sIsError>>

\* e.IsError()
CallIsError ==
    /\ "IsError" \notin sCalled
    /\ sIsError' = IsError([StatusCode |-> sCode])
    /\ sCalled' = sCalled \cup {"IsError"}
    /\ UNCHANGED <<brokerVars, pubVars, panicked, histVars, watchVars,
                   replayVars, tuiVars, closeVars, filterVars, scopeVars, sCode, sString>>

NextStatus ==
    \/ CallString
    \/ CallIsError

SpecStatus == InitStatus /\ [][NextStatus]_vars

\* ----------------------------------------------------------------- C28
\* the names of the codes 0..17, in the order of the codes
StatusNames ==
    <<"UNSPECIFIED", "OK", "CANCELLED", "UNKNOWN", "INVALID_ARGUMENT", "DEADLINE_EXCEEDED",
      "NOT_FOUND", "ALREADY_EXISTS", "PERMISSION_DENIED", "RESOURCE_EXHAUSTED", "FAILED_PRECONDITION",
      "ABORTED", "OUT_OF_RANGE", "UNIMPLEMENTED", "INTERNAL", "UNAVAILABLE", "DATA_LOSS", "UNAUTHENTICATED">>

\* C28: StatusCode.String is total: the codes 0..17 render as the eighteen
\* names, in order and pairwise distinct, and every other value, negative
\* or above 17, renders as "UNKNOWN".
C28_StringIsTotal ==
    /\ \A i, j \in 1..Len(StatusNames) : StatusNames[i] = StatusNames[j] => i = j
    /\ "String" \in sCalled =>
          sString = IF sCode \in 0..17 THEN StatusNames[sCode + 1] ELSE "UNKNOWN"

\* String() has run for the last defined code
C28_Witness ==
    /\ "String" \in sCalled
    /\ sCode = 17
    /\ sString = "UNAUTHENTICATED"

\* ----------------------------------------------------------------- C29
\* C29: IsError() is true exactly when the StatusCode is not OK (1): for
\* UNSPECIFIED (0) and for every code outside 0..17 it is true.
C29_IsErrorIffNotOK ==
    "IsError" \in sCalled =>
        /\ sIsError <=> sCode # 1
        /\ (sCode = 0 \/ sCode \notin 0..17) => sIsError

\* IsError() has run for an event whose status was never recorded
C29_Witness ==
    /\ "IsError" \in sCalled
    /\ sCode = 0
    /\ sIsError

\* ========================================================= interceptors
MaxCalls == 2         \* intercepted calls, which may run at the same time

IntCalls == 1..MaxCalls

\* codes.Code / connect.Code: the defined codes and two undefined ones
NativeCodes == (0..16) \cup {17, 98}

\* the ways a handler ends, resp and err: a response and no error, an
\* error carrying a status of some code (an error of code OK is no error),
\* an error carrying no status
Outcomes ==
    {[err |-> "nil", code |-> 0, resp |-> "resp"],
     [err |-> "plain", code |-> 0, resp |-> "nil"]} \cup
    {[err |-> "status", code |-> c, resp |-> "nil"] : c \in NativeCodes \ {0}}

\* an interceptor that has not returned
NoReturn == [err |-> "none", code |-> 0, resp |-> "none"]

\* status.FromError(err) then st.Code(): OK for nil, Unknown for an error
\* without a status
FromErrorCode(o) ==
    CASE o.err = "nil" -> 0
      [] o.err = "plain" -> 2
      [] OTHER -> o.code

\* connect.CodeOf(err): CodeUnknown for an error that is no *connect.Error
CodeOf(o) == IF o.err = "plain" THEN 2 ELSE o.code

\* the native code a call ended with
NativeCode(o) == FromErrorCode(o)

\* the gRPC interceptors' status code, the offset left out
GrpcStatusCodeNoOffset(o) == FromErrorCode(o)

\* domain.StatusCode(st.Code() + 1)
GrpcStatusCode(o) == FromErrorCode(o) + 1

\* the Connect interceptors: domain.StatusCode(code + 1) for an error,
\* domain.StatusOK for none
ConnectStatusCode(o) == IF o.err # "nil" THEN CodeOf(o) + 1 ELSE StatusOK

\* fmt.Sprintf("call-%d", n)
Sprintf(n) == <<"call-", n>>

\* domainToProto(e)
domainToProto(e) == [id |-> e.ID, status_code |-> e.StatusCode]

\* a call that has not reached its interceptor's code after the handler
NewCall == [pc |-> "handler", outcome |-> NoReturn, loaded |-> 0,
            id |-> <<>>, ret |-> NoReturn]

\* a Scope of either kind, with MaxCalls calls inside their handlers
ScopeInit ==
    /\ scKind \in {"grpc", "connect"}
    /\ scNextID = 0
    /\ scCalls = [c \in IntCalls |-> NewCall]
    /\ scIssued = <<>>
    /\ scPublished = <<>>
    /\ scWatched = <<>>

InitScope ==
    /\ BrokerInit /\ WatchInit /\ ReplayIdle
    /\ FilterIdle /\ StatusIdle /\ ScopeInit /\ TuiIdle /\ CloseIdle

\* resp, err := handler(ctx, req) returns
HandlerReturns(c) ==
    /\ scCalls[c].pc = "handler"
    /\ \E o \in Outcomes :
          scCalls' = [scCalls EXCEPT ![c].pc = "load", ![c].outcome = o]
    /\ UNCHANGED <<brokerVars, pubVars, panicked, histVars, watchVars,
                   replayVars, tuiVars, closeVars, filterVars, statusVars, scKind, scNextID,
                   scIssued, scPublished, scWatched>>

\* generateID, s.nextID++: the load
GenerateIDLoad(c) ==
    /\ scCalls[c].pc = "load"
    /\ scCalls' = [scCalls EXCEPT ![c].pc = "store", ![c].loaded = scNextID]
    /\ UNCHANGED <<brokerVars, pubVars, panicked, histVars, watchVars,
                   replayVars, tuiVars, closeVars, filterVars, statusVars, scKind, scNextID,
                   scIssued, scPublished, scWatched>>

\* generateID, s.nextID++: the store
GenerateIDStore(c) ==
    /\ scCalls[c].pc = "store"
    /\ scNextID' = scCalls[c].loaded + 1
    /\ scCalls' = [scCalls EXCEPT ![c].pc = "format"]
    /\ UNCHANGED <<brokerVars, pubVars, panicked, histVars, watchVars,
                   replayVars, tuiVars, closeVars, filterVars, statusVars, scKind, scIssued,
                   scPublished, scWatched>>

\* generateID: return fmt.Sprintf("call-%d", s.nextID)
GenerateID(c) ==
    /\ scCalls[c].pc = "format"
    /\ scCalls' = [scCalls EXCEPT ![c].pc = "publish", ![c].id = Sprintf(scNextID)]
    /\ scIssued' = Append(scIssued, Sprintf(scNextID))
    /\ UNCHANGED <<brokerVars, pubVars, panicked, histVars, watchVars,
                   replayVars, tuiVars, closeVars, filterVars, statusVars, scKind, scNextID,
                   scPublished, scWatched>>

\* the event an interceptor builds for call c
EventOf(c) ==
    LET o == scCalls[c].outcome
    IN [ID |-> scCalls[c].id,
        call |-> c,
        native |-> NativeCode(o),
        StatusCode |-> IF scKind = "grpc" THEN GrpcStatusCode(o)
                       ELSE ConnectStatusCode(o)]

\* the interceptor gives its event to the broker twice
InterceptorPublishTwice(c) ==
    /\ scCalls[c].pc = "publish"
    /\ scPublished' = Append(Append(scPublished, EventOf(c)), EventOf(c))
    /\ scCalls' = [scCalls EXCEPT ![c].pc = "return"]
    /\ UNCHANGED <<brokerVars, pubVars, panicked, histVars, watchVars,
                   replayVars, tuiVars, closeVars, filterVars, statusVars, scKind, scNextID,
                   scIssued, scWatched>>

\* the rest of the interceptor up to Publish: the status code is set and
\* the event is given to the broker
InterceptorPublish(c) ==
    /\ scCalls[c].pc = "publish"
    /\ scPublished' = Append(scPublished, EventOf(c))
    /\ scCalls' = [scCalls EXCEPT ![c].pc = "return"]
    /\ UNCHANGED <<brokerVars, pubVars, panicked, histVars, watchVars,
                   replayVars, tuiVars, closeVars, filterVars, statusVars, scKind, scNextID,
                   scIssued, scWatched>>

\* return resp, err (the stream interceptors: return err)
InterceptorReturn(c) ==
    /\ scCalls[c].pc = "return"
    /\ scCalls' = [scCalls EXCEPT ![c].pc = "done", ![c].ret = scCalls[c].outcome]
    /\ UNCHANGED <<brokerVars, pubVars, panicked, histVars, watchVars,
                   replayVars, tuiVars, closeVars, filterVars, statusVars, scKind, scNextID,
                   scIssued, scPublished, scWatched>>

\* Watch sends the next published event to a watcher
WatchDeliver ==
    /\ Len(scWatched) < Len(scPublished)
    /\ scWatched' = Append(scWatched,
                           domainToProto(scPublished[Len(scWatched) + 1]))
    /\ UNCHANGED <<brokerVars, pubVars, panicked, histVars, watchVars,
                   replayVars, tuiVars, closeVars, filterVars, statusVars, scKind, scNextID,
                   scCalls, scIssued, scPublished>>

NextScope ==
    \/ \E c \in IntCalls : HandlerReturns(c)
    \/ \E c \in IntCalls : GenerateIDLoad(c)
    \/ \E c \in IntCalls : GenerateIDStore(c)
    \/ \E c \in IntCalls : GenerateID(c)
    \/ \E c \in IntCalls : InterceptorPublish(c)
    \/ \E c \in IntCalls : InterceptorReturn(c)
    \/ WatchDeliver

SpecScope == InitScope /\ [][NextScope]_vars

\* ----------------------------------------------------------------- C27
\* C27: a call that ends with native status code c in 0..16 is published
\* as an event of domain code c + 1, and a watcher receives that event with
\* status_code c + 1: OK gives 1, NotFound gives 6, and no such event
\* carries UNSPECIFIED (0).
C27_StatusCodeIsNativePlusOne ==
    /\ \A i \in 1..Len(scPublished) :
          scPublished[i].native \in 0..16 =>
              /\ scPublished[i].StatusCode = scPublished[i].native + 1
              /\ scPublished[i].StatusCode # StatusUnspecified
    /\ \A i \in 1..Len(scWatched) :
          scPublished[i].native \in 0..16 =>
              /\ scWatched[i].status_code = scPublished[i].native + 1
              /\ scWatched[i].status_code # 0

\* a watcher has received the events of a call that ended with NotFound
\* and of one that ended with OK
C27_Witness ==
    /\ Len(scWatched) = 2
    /\ scPublished[1].native = 5
    /\ scWatched[1].status_code = 6
    /\ scPublished[2].native = 0
    /\ scWatched[2].status_code = 1

\* ----------------------------------------------------------------- C30
\* C30: the event IDs of one Scope are unique and assigned in increasing
\* order, also when intercepted calls complete at the same time: no two
\* published events carry the same ID.
C30_EventIDsAreUnique ==
    /\ \A i, j \in 1..Len(scPublished) :
          scPublished[i].ID = scPublished[j].ID => i = j
    /\ \A i, j \in 1..Len(scIssued) :
          i < j => scIssued[i][2] < scIssued[j][2]

\* ----------------------------------------------------------------- C36
\* no two unsubscribe closures hold the same id
IdsNeverReused ==
    \A g, h \in Made : unsubId[g] = unsubId[h] => g = h

\* C36: subscriber identities are never reused, and a run of the
\* unsubscribe closure of handle h, the first or a later one, leaves
\* every other subscriber as it was: still registered if it was, under
\* the same id, with its queue neither closed nor changed.
C36_OldUnsubscribeTouchesNoOther ==
    /\ []IdsNeverReused
    /\ [][\A h \in Handles : Unsubscribe(h) =>
            \A g \in Made \ {h} :
                /\ chans'[g] = chans[g]
                /\ \A id \in DOMAIN subscribers :
                      subscribers[id] = g =>
                          /\ id \in DOMAIN subscribers'
                          /\ subscribers'[id] = g]_vars

\* the closure of the first subscriber has run twice; the second
\* subscriber, registered when event 1 was published and the first no
\* longer was, is still registered, its queue open with event 1 in it
C36_Witness ==
    /\ Len(chans) = 2
    /\ unsubDone[1] = 2
    /\ snap[1] = {unsubId[2]}
    /\ unsubId[2] \in DOMAIN subscribers
    /\ subscribers[unsubId[2]] = 2
    /\ chans[1].closed
    /\ chans[2] = [buf |-> <<1>>, closed |-> FALSE]
    /\ ~panicked

\* ----------------------------------------------------------------- C34
\* the events published for call c
EventsOf(c) == {i \in 1..Len(scPublished) : scPublished[i].call = c}

\* C34: an intercepted call has no published event until its handler has
\* returned and its interceptor has reached Publish, it has exactly one
\* when its interceptor is about to return and ever after, and the
\* interceptor returns the response and the error its handler returned.
C34_OneEventPerCall ==
    \A c \in DOMAIN scCalls :
        /\ scCalls[c].pc \in {"handler", "load", "store", "format", "publish"} =>
              /\ EventsOf(c) = {}
              /\ scCalls[c].ret = NoReturn
        /\ scCalls[c].pc \in {"return", "done"} => Cardinality(EventsOf(c)) = 1
        /\ scCalls[c].pc = "return" => scCalls[c].ret = NoReturn
        /\ scCalls[c].pc = "done" =>
              /\ scCalls[c].ret = scCalls[c].outcome
              /\ scCalls[c].ret \in Outcomes

\* two calls have been intercepted, one ended with a response and one with
\* a NotFound error; each has its one event and has returned what its
\* handler returned, while the other call was still inside its handler
\* when the first event was published
C34_Witness ==
    /\ scCalls # <<>>
    /\ \A c \in IntCalls : scCalls[c].pc = "done"
    /\ scCalls[1].ret = [err |-> "status", code |-> 5, resp |-> "nil"]
    /\ scCalls[2].ret = [err |-> "nil", code |-> 0, resp |-> "resp"]
    /\ Len(scPublished) = 2
    /\ scPublished[1].call = 2
    /\ scPublished[2].call = 1

\* ----------------------------------------------------------------- C31
\* no queue holds, and no subscriber has read, an event whose Publish call
\* had returned when that subscriber's Subscribe call started
NoHistoryDelivered ==
    \A h \in Made : Range(Delivered(h)) \cap startedAfter[h] = {}

\* a step of a Publish call
PublishStep == \E e \in Events : pub'[e] # pub[e]

\* C31: the broker keeps no history: a subscriber never receives an event
\* whose Publish call returned before its Subscribe call started, and a
\* Publish made while there are no subscribers changes nothing of the
\* broker (no queue, no registry entry, no identity counter).
C31_NoHistory ==
    /\ []NoHistoryDelivered
    /\ [][(PublishStep /\ DOMAIN subscribers = {}) =>
            /\ subscribers' = subscribers
            /\ nextID' = nextID
            /\ chans' = chans
            /\ unsubId' = unsubId]_vars

\* event 1 was published to nobody; the subscriber that came after its
\* Publish had returned has read event 2 and nothing else
C31_Witness ==
    /\ snap[1] = {}
    /\ startedAfter[1] = {1}
    /\ received[1] = <<2>>
    /\ chans[1].buf = <<>>
    /\ pub[2].pc = "done"

\* ============================================================== monitor
MaxTuiEvents == 3     \* events the Watch stream delivers to the monitor

\* the methods of delivered events: two application methods and one of the
\* reflection service ("/grpc.reflection." and what follows)
ReflectionPrefix ==
    <<"/", "g", "r", "p", "c", ".", "r", "e", "f", "l", "e", "c", "t", "i", "o", "n", ".">>
MethodGet == <<"/", "G", "e", "t">>
MethodList == <<"/", "L", "i", "s", "t">>
MethodReflection == ReflectionPrefix \o <<"v", "1">>
TuiMethods == {MethodGet, MethodList, MethodReflection}

\* a scopev1.CallEvent: its request payload is told apart by the event's id
CallEvent(id, method) ==
    [id |-> id, method |-> method, payload |-> <<"payload", id>>]

\* tea.WindowSizeMsg values
WindowSizes == {[Width |-> 120, Height |-> 9]}

\* msg.String() of the keys pressed
KeyStrings == {"q", "ctrl+c", "up", "k", "down", "j", "r", "e", "x"}

\* len(allLines) of the rendered replay result
RenderedLines == 5

\* no command, and tea.Quit
NoCmd == [kind |-> "nil"]
QuitCmd == [kind |-> "quit"]

\* what a handler returns: the model, the command, and whether it panicked
Ret(m, cmd) == [m |-> m, cmd |-> cmd, panic |-> FALSE]
Panic(m) == [m |-> m, cmd |-> NoCmd, panic |-> TRUE]

\* m.doReplay(ev, payloadJSON): the command captures the method and payload
doReplay(ev, payloadJSON) ==
    [kind |-> "replay", method |-> ev.method, payloadJSON |-> payloadJSON]

\* m.openEditor(ev)
openEditor(ev) == [kind |-> "editor", event |-> ev]

\* canReplay without the test of m.replaying
canReplayWhileReplaying(m) ==
    m.appTarget # "" /\ Len(m.events) > 0 /\ m.mode = "viewList"

\* m.canReplay()
canReplay(m) ==
    m.appTarget # "" /\ Len(m.events) > 0 /\ ~m.replaying /\ m.mode = "viewList"

\* m.replayScrollMax()
replayScrollMax(m) ==
    IF m.replayResult.nil
    THEN 0
    ELSE LET visibleMax == IF m.height - 2 - 1 < 3 THEN 3 ELSE m.height - 2 - 1
             max == m.replayResult.totalLines - visibleMax
         IN IF max < 0 THEN 0 ELSE max

\* m.navigateUp()
navigateUp(m) ==
    IF m.mode = "viewReplay" /\ ~m.replayResult.nil /\ m.replayResult.scroll > 0
    THEN [m EXCEPT !.replayResult.scroll = @ - 1]
    ELSE IF m.mode = "viewList" /\ m.cursor > 0
         THEN [m EXCEPT !.cursor = @ - 1]
         ELSE m

\* m.navigateDown()
navigateDown(m) ==
    IF m.mode = "viewReplay" /\ ~m.replayResult.nil
    THEN IF m.replayResult.scroll < replayScrollMax(m)
         THEN [m EXCEPT !.replayResult.scroll = @ + 1]
         ELSE m
    ELSE IF m.mode = "viewList" /\ m.cursor < Len(m.events) - 1
         THEN [m EXCEPT !.cursor = @ + 1]
         ELSE m

\* m.events[m.cursor] can be read
InRange(m) == m.cursor \in 0..(Len(m.events) - 1)

\* handleKey for q and ctrl+c that quits from either view
handleQuitAlways(m) == Ret(m, QuitCmd)

\* handleKey, case "q", "ctrl+c"
handleQuit(m) ==
    IF m.mode = "viewReplay"
    THEN Ret([m EXCEPT !.mode = "viewList", !.replayResult = NoView], NoCmd)
    ELSE Ret(m, QuitCmd)

\* handleKey, case "r"
handleR(m) ==
    IF m.mode = "viewReplay" /\ m.appTarget # "" /\ ~m.replaying
       /\ ~m.replayResult.nil
    THEN IF InRange(m)
         THEN Ret([m EXCEPT !.replaying = TRUE],
                  doReplay(m.events[m.cursor + 1], m.replayResult.requestJSON))
         ELSE Panic([m EXCEPT !.replaying = TRUE])
    ELSE IF canReplay(m)
         THEN IF InRange(m)
              THEN Ret([m EXCEPT !.replaying = TRUE],
                       doReplay(m.events[m.cursor + 1],
                                m.events[m.cursor + 1].payload))
              ELSE Panic([m EXCEPT !.replaying = TRUE])
         ELSE Ret(m, NoCmd)

\* handleKey, case "e"
handleE(m) ==
    IF canReplay(m)
    THEN IF InRange(m)
         THEN Ret([m EXCEPT !.replaying = TRUE],
                  openEditor(m.events[m.cursor + 1]))
         ELSE Panic([m EXCEPT !.replaying = TRUE])
    ELSE Ret(m, NoCmd)

\* m.handleKey(msg)
handleKey(m, key) ==
    CASE key \in {"q", "ctrl+c"} -> handleQuit(m)
      [] key \in {"up", "k"} -> Ret(navigateUp(m), NoCmd)
      [] key \in {"down", "j"} -> Ret(navigateDown(m), NoCmd)
      [] key = "r" -> handleR(m)
      [] key = "e" -> handleE(m)
      [] OTHER -> Ret(m, NoCmd)

\* Update, case EventMsg: the event is put in front of the list
UpdateEventMsg(m, ev) ==
    IF ~HasPrefix(ev.method, ReflectionPrefix)
    THEN [m EXCEPT !.events = <<ev>> \o m.events,
                   !.cursor = IF Len(m.events) + 1 > 1 THEN @ + 1 ELSE @]
    ELSE m

\* Update, case ReplayResultMsg
UpdateReplayResultMsg(m, msg) ==
    [m EXCEPT !.replaying = FALSE,
              !.mode = "viewReplay",
              !.replayResult = [nil |-> FALSE, method |-> msg.Method,
                                requestJSON |-> msg.RequestJSON,
                                err |-> msg.Err, scroll |-> 0, totalLines |-> 0]]

\* Update, case EditorFinishedMsg
UpdateEditorFinishedMsg(m, msg) ==
    IF msg.Err
    THEN Ret([m EXCEPT !.replaying = FALSE,
                       !.mode = "viewReplay",
                       !.replayResult = [nil |-> FALSE,
                                         method |-> msg.Event.method,
                                         requestJSON |-> <<>>, err |-> TRUE,
                                         scroll |-> 0, totalLines |-> 0]],
             NoCmd)
    ELSE Ret(m, doReplay(msg.Event, msg.Payload))

\* the runtime takes what Update returned: the model, and the command, which
\* it starts (tea.Quit ends the program)
TakeReturn(r) ==
    /\ tm' = r.m
    /\ tPanicked' = r.panic
    /\ tQuit' = (r.cmd = QuitCmd)
    /\ tCmds' = IF r.cmd.kind \in {"replay", "editor"}
                THEN Append(tCmds, r.cmd)
                ELSE tCmds

\* the positions of the commands that have not finished
CmdSlots == 1..MaxTuiEvents

\* the monitor is running
Running == tStream # "none" /\ ~tQuit /\ ~tPanicked

\* a monitor started with or without an application address
TuiInit ==
    /\ tm \in {NewModel(""), NewModel("app")}
    /\ tCmds = <<>>
    /\ tStream = "connecting"
    /\ tNextEv = 1
    /\ tQuit = FALSE
    /\ tPanicked = FALSE
    /\ tMsg = "none"

InitTui ==
    /\ BrokerInit /\ WatchInit /\ ReplayIdle
    /\ FilterIdle /\ StatusIdle /\ ScopeIdle /\ TuiInit /\ CloseIdle

\* Update(tea.KeyMsg)
Key(key) ==
    /\ Running
    /\ TakeReturn(handleKey(tm, key))
    /\ tMsg' = key
    /\ UNCHANGED <<nonTuiVars, tStream, tNextEv>>

\* Update(tea.WindowSizeMsg)
WindowSize(msg) ==
    /\ Running
    /\ tm' = [tm EXCEPT !.width = msg.Width, !.height = msg.Height]
    /\ tMsg' = "WindowSizeMsg"
    /\ UNCHANGED <<nonTuiVars, tCmds, tStream, tNextEv, tQuit, tPanicked>>

\* the command of Init ends: Update(connectedMsg) or Update(ErrMsg)
Connected ==
    /\ Running
    /\ tStream = "connecting"
    /\ \/ /\ tStream' = "open"
          /\ tm' = [tm EXCEPT !.conn = TRUE]
          /\ tMsg' = "connectedMsg"
       \/ /\ tStream' = "broken"
          /\ tm' = [tm EXCEPT !.err = TRUE]
          /\ tMsg' = "ErrMsg"
    /\ UNCHANGED <<nonTuiVars, tCmds, tNextEv, tQuit, tPanicked>>

\* recvEvent ends with an event: Update(EventMsg)
EventArrives(method) ==
    /\ Running
    /\ tStream = "open"
    /\ tNextEv <= MaxTuiEvents
    /\ tm' = UpdateEventMsg(tm, CallEvent(tNextEv, method))
    /\ tNextEv' = tNextEv + 1
    /\ tMsg' = "EventMsg"
    /\ UNCHANGED <<nonTuiVars, tCmds, tStream, tQuit, tPanicked>>

\* recvEvent ends with an error: Update(ErrMsg), and no further recvEvent
StreamBreaks ==
    /\ Running
    /\ tStream = "open"
    /\ tStream' = "broken"
    /\ tm' = [tm EXCEPT !.err = TRUE]
    /\ tMsg' = "ErrMsg"
    /\ UNCHANGED <<nonTuiVars, tCmds, tNextEv, tQuit, tPanicked>>

\* a replay command ends: Update(ReplayResultMsg)
ReplayFinishes(i) ==
    /\ Running
    /\ i \in 1..Len(tCmds)
    /\ tCmds[i].kind = "replay"
    /\ \E err \in BOOLEAN :
          tm' = UpdateReplayResultMsg(tm, [Method |-> tCmds[i].method,
                                           RequestJSON |-> tCmds[i].payloadJSON,
                                           Err |-> err])
    /\ tCmds' = Without(tCmds, i)
    /\ tMsg' = "ReplayResultMsg"
    /\ UNCHANGED <<nonTuiVars, tStream, tNextEv, tQuit, tPanicked>>

\* an editor command ends: Update(EditorFinishedMsg), with an error or with
\* the payload as the user left it
EditorFinishes(i) ==
    /\ Running
    /\ i \in 1..Len(tCmds)
    /\ tCmds[i].kind = "editor"
    /\ \E msg \in {[Event |-> tCmds[i].event, Payload |-> <<>>, Err |-> TRUE],
                   [Event |-> tCmds[i].event, Payload |-> <<"edited">>,
                    Err |-> FALSE]} :
          LET r == UpdateEditorFinishedMsg(tm, msg)
          IN /\ tm' = r.m
             /\ tCmds' = IF r.cmd = NoCmd
                         THEN Without(tCmds, i)
                         ELSE Append(Without(tCmds, i), r.cmd)
    /\ tMsg' = "EditorFinishedMsg"
    /\ UNCHANGED <<nonTuiVars, tStream, tNextEv, tQuit, tPanicked>>

\* View() in the replay result view: renderReplayResult sets totalLines
Render ==
    /\ Running
    /\ tm.mode = "viewReplay"
    /\ ~tm.replayResult.nil
    /\ tm.replayResult.totalLines # RenderedLines
    /\ tm' = [tm EXCEPT !.replayResult.totalLines = RenderedLines]
    /\ UNCHANGED <<nonTuiVars, tCmds, tStream, tNextEv, tQuit, tPanicked,
                   tMsg>>

NextTui ==
    \/ \E key \in KeyStrings : Key(key)
    \/ \E msg \in WindowSizes : WindowSize(msg)
    \/ Connected
    \/ \E method \in TuiMethods : EventArrives(method)
    \/ StreamBreaks
    \/ \E i \in CmdSlots : ReplayFinishes(i)
    \/ \E i \in CmdSlots : EditorFinishes(i)
    \/ Render

SpecTui == InitTui /\ [][NextTui]_vars

\* ----------------------------------------------------------------- C32
\* Update was called with q or ctrl+c in this step
QuitKeyStep == tMsg' \in {"q", "ctrl+c"} /\ <<tm, tQuit, tMsg>>' # <<tm, tQuit, tMsg>>

\* C32: q or ctrl+c pressed in the replay result view returns to the list
\* view and clears the replay result, without quitting and without changing
\* the event list or the cursor; pressed in the list view it quits.
C32_QuitKeyLeavesReplayView ==
    [][QuitKeyStep =>
          IF tm.mode = "viewReplay"
          THEN /\ tm'.mode = "viewList"
               /\ tm'.replayResult = NoView
               /\ ~tQuit'
               /\ tm'.events = tm.events
               /\ tm'.cursor = tm.cursor
               /\ tCmds' = tCmds
          ELSE tQuit']_vars

\* q was pressed in the replay result view: the monitor runs on, in the list
\* view, with its events
C32_Witness ==
    /\ tMsg = "q"
    /\ ~tQuit
    /\ tm.mode = "viewList"
    /\ tm.replayResult = NoView
    /\ Len(tm.events) = 2
    /\ tm.cursor = 1

\* ----------------------------------------------------------------- C33
\* at most one command is running, and m.replaying is set while one is
OneReplayInFlight == Len(tCmds) <= 1 /\ (tCmds # <<>> => tm.replaying)

\* C33: r and e start a replay only when an application address was given,
\* the event list is not empty and no replay is in flight; otherwise they
\* return no command and leave the model as it is; so at most one replay
\* is in flight at any time.
C33_ReplayKeysStartOneReplay ==
    /\ []OneReplayInFlight
    /\ [][\A key \in {"r", "e"} :
            Key(key) =>
                IF tCmds' # tCmds
                THEN /\ tm.appTarget # ""
                     /\ tm.events # <<>>
                     /\ tCmds = <<>>
                     /\ ~tm.replaying
                     /\ Len(tCmds') = 1
                ELSE tm' = tm /\ ~tQuit']_vars

\* r was pressed while a replay was running, and was ignored
C33_Witness ==
    /\ tMsg = "r"
    /\ tm.replaying
    /\ tm.mode = "viewList"
    /\ tCmds = <<openEditor(CallEvent(1, MethodGet))>>

\* ----------------------------------------------------------------- C37
\* C37: in the replay result view, r resends the displayed request to the
\* method the displayed replay result belongs to, whatever navigation or
\* arrival of events happened while the first replay was running.
C37_ResendGoesToDisplayedMethod ==
    [][(Key("r") /\ tm.mode = "viewReplay" /\ tCmds' # tCmds) =>
          /\ tCmds'[Len(tCmds')].payloadJSON = tm.replayResult.requestJSON
          /\ tCmds'[Len(tCmds')].method = tm.replayResult.method]_vars

\* ------------------------------------------- Update called with any message
\* ReplayResultMsg and EditorFinishedMsg values that answer no command
StrayReplayResults ==
    {[Method |-> MethodGet, RequestJSON |-> <<"payload", 1>>, Err |-> err] :
        err \in BOOLEAN}
StrayEditorResults ==
    {[Event |-> CallEvent(1, MethodGet), Payload |-> <<>>, Err |-> TRUE],
     [Event |-> CallEvent(1, MethodGet), Payload |-> <<"edited">>, Err |-> FALSE]}

\* Update(ReplayResultMsg) for a message that no running command produced,
\* delivered while no event is listed
DeliverReplayResultMsg(msg) ==
    /\ Running
    /\ tCmds = <<>>
    /\ tm.events = <<>>
    /\ tm' = UpdateReplayResultMsg(tm, msg)
    /\ tMsg' = "ReplayResultMsg"
    /\ UNCHANGED <<nonTuiVars, tCmds, tStream, tNextEv, tQuit, tPanicked>>

\* Update(EditorFinishedMsg) for a message that no running command
\* produced, delivered while no event is listed
DeliverEditorFinishedMsg(msg) ==
    /\ Running
    /\ tCmds = <<>>
    /\ tm.events = <<>>
    /\ LET r == UpdateEditorFinishedMsg(tm, msg)
       IN /\ tm' = r.m
          /\ tCmds' = IF r.cmd = NoCmd THEN tCmds ELSE Append(tCmds, r.cmd)
    /\ tMsg' = "EditorFinishedMsg"
    /\ UNCHANGED <<nonTuiVars, tStream, tNextEv, tQuit, tPanicked>>

\* Update called, on a monitor whose stream delivers no event, with the
\* messages of the runtime and with messages that a caller of Update makes
\* up
NextTuiAny ==
    \/ \E key \in KeyStrings : Key(key)
    \/ \E msg \in WindowSizes : WindowSize(msg)
    \/ Connected
    \/ StreamBreaks
    \/ \E i \in CmdSlots : ReplayFinishes(i)
    \/ Render
    \/ \E msg \in StrayReplayResults : DeliverReplayResultMsg(msg)
    \/ \E msg \in StrayEditorResults : DeliverEditorFinishedMsg(msg)

SpecTuiAny == InitTui /\ [][NextTuiAny]_vars

WatchAccepted ==
    /\ serverState = "serving"
    /\ SubscribeCall

\* Scope.Close calls s.server.GracefulStop(), which calls
\* s.grpcServer.GracefulStop(): no new call is accepted, no context of a
\* running call is cancelled
ScopeClose ==
    /\ serverState = "serving"
    /\ serverState' = "stopping"
    /\ UNCHANGED <<brokerVars, pubVars, panicked, histVars, watchVars,
                   replayVars, filterVars, statusVars, scopeVars, tuiVars>>

\* the Watch calls the server has accepted have all returned
AllWatchesReturned ==
    /\ subWaiting = 0
    /\ \A h \in 1..subCalls : WatchReturned(h)

\* grpcServer.GracefulStop returns once every running call has returned,
\* and with it Server.GracefulStop and Scope.Close
GracefulStop ==
    /\ serverState = "stopping"
    /\ AllWatchesReturned
    /\ serverState' = "stopped"
    /\ UNCHANGED <<brokerVars, pubVars, panicked, histVars, watchVars,
                   replayVars, filterVars, statusVars, scopeVars, tuiVars>>

\* Watch calls of remote watchers, which may cancel or not, one publisher,
\* and one call of Scope.Close
NextClose ==
    \/ WatchAccepted
    \/ Subscribe
    \/ \E h \in Handles : Cancel(h)
    \/ \E h \in Handles : WatchCtxDone(h)
    \/ \E h \in Handles : WatchRecv(h)
    \/ \E h \in Handles : WatchSend(h)
    \/ \E h \in Handles : WatchDefer(h)
    \/ \E h \in Handles : Unsubscribe(h)
    \/ \E e \in Events : PublishOneAtATime(e)
    \/ \E e \in Events : PublishLoop(e)
    \/ \E e \in Events : PublishReturn(e)
    \/ ScopeClose
    \/ GracefulStop

SpecClose == Init /\ [][NextClose]_vars

\* the Go scheduler runs every goroutine that can take a step: the Watch
\* loops, the bodies of Subscribe and unsubscribe, a Publish call under
\* way, and the goroutine inside GracefulStop.  Nothing makes a watcher
\* cancel, a caller call Publish, or the program call Close.
CloseFairness ==
    /\ WF_vars(Subscribe)
    /\ WF_vars(GracefulStop)
    /\ \A h \in Handles :
          /\ WF_vars(WatchCtxDone(h))
          /\ WF_vars(WatchRecv(h))
          /\ WF_vars(WatchSend(h))
          /\ WF_vars(WatchDefer(h))
          /\ WF_vars(Unsubscribe(h))
    /\ \A e \in Events : WF_vars(PublishLoop(e)) /\ WF_vars(PublishReturn(e))

SpecCloseLive == SpecClose /\ CloseFairness

\* ----------------------------------------------------------------- C39
\* C39 (as the claim states it): once Scope.Close has been called it
\* eventually returns, with every Watch call the server accepted ended and
\* its subscription released, whether the watchers cancel or not.
C39_CloseEventuallyReturns ==
    (serverState = "stopping") ~>
        (/\ serverState = "stopped"
         /\ \A h \in 1..subCalls :
               WatchReturned(h) /\ unsubId[h] \notin DOMAIN subscribers)

====
